---------------------------- MODULE Spec2Model ----------------------------
(***************************************************************************)
(* Model of the supervisory-procedures policy engine:                      *)
(*   core/access_control.py  AuthorisedAgentsGuard                         *)
(*   core/validator.py       validate_skill and its warning collectors     *)
(*   core/registry.py        SkillRegistry                                 *)
(*   cli/export.py           the export command                            *)
(* Python dicts are records whose optional keys may be absent from the     *)
(* DOMAIN; Get mirrors dict.get.  Exceptions are result records whose      *)
(* kind is the exception class name.                                       *)
(***************************************************************************)
EXTENDS Integers, Sequences, FiniteSets, TLC

VARIABLES
    store,      \* the document store: path index (sorted path order) -> file
    cache,      \* SkillRegistry._cache : skill id -> skill data
    loaded,     \* SkillRegistry._loaded
    gdoc,       \* the dict an AuthorisedAgentsGuard was constructed from
    guard,      \* the fields the guard captured in __init__
    vfile,      \* the file handed to validate_skill
    runner,     \* the fields of a WorkflowRunner and the progress of its execute()
    loader,     \* the progress of a thread inside SkillRegistry.load
    res         \* outcome of the last operation

vars == <<store, cache, loaded, gdoc, guard, vfile, runner, loader, res>>

-----------------------------------------------------------------------------
(* Bounds *)

MaxAgents == 2      \* longest authorised_agents list handed to the guard
MaxSteps == 2       \* longest workflow of a validated document
MaxCPs == 2         \* most control points of a validated document
MaxFiles == 2       \* most skill.yml files in the document store

-----------------------------------------------------------------------------
(* Python helpers *)

EmptyDict == <<>>

Get(d, key, default) == IF key \in DOMAIN d THEN d[key] ELSE default

Has(d, key) == key \in DOMAIN d

In(x, list) == \E i \in 1..Len(list) : list[i] = x

SeqsUpTo(S, n) == UNION {[1..k -> S] : k \in 0..n}

NoResult == [op |-> "none", kind |-> "none"]
NoRunner == [status |-> "none"]       \* no WorkflowRunner constructed
NoLoader == [pc |-> "idle"]          \* no thread inside load()

-----------------------------------------------------------------------------
(* core/access_control.py *)

WILDCARD == "*"

\* SkillNotApprovedError and AgentNotAuthorisedError derive from
\* PermissionError; SkillNotFoundError derives from Exception only.
PermissionError == {"SkillNotApprovedError", "AgentNotAuthorisedError"}

SkillNotApprovedError(skill_id, status) ==
    [kind |-> "SkillNotApprovedError", skill_id |-> skill_id, status |-> status]

AgentNotAuthorisedError(agent_id, skill_id) ==
    [kind |-> "AgentNotAuthorisedError", agent_id |-> agent_id, skill_id |-> skill_id]

Ok == [kind |-> "ok"]

\* AuthorisedAgentsGuard.__init__
GuardInit(skill_data) ==
    LET meta == Get(skill_data, "metadata", EmptyDict)
    IN  [skill_id          |-> Get(meta, "id", "<unknown>"),
         status            |-> Get(meta, "status", "draft"),
         authorised_agents |-> Get(meta, "authorised_agents", <<>>)]

\* check with the allowlist gate ahead of the status gate
check_AllowlistFirst(g, agent_id) ==
    IF ~In(WILDCARD, g.authorised_agents) /\ ~In(agent_id, g.authorised_agents)
    THEN AgentNotAuthorisedError(agent_id, g.skill_id)
    ELSE IF g.status # "approved"
         THEN SkillNotApprovedError(g.skill_id, g.status)
         ELSE Ok

\* check without the wildcard
check_NoWildcard(g, agent_id) ==
    IF g.status # "approved"
    THEN SkillNotApprovedError(g.skill_id, g.status)
    ELSE IF ~In(agent_id, g.authorised_agents)
         THEN AgentNotAuthorisedError(agent_id, g.skill_id)
         ELSE Ok

\* AuthorisedAgentsGuard.check
check(g, agent_id) ==
    IF g.status # "approved"
    THEN SkillNotApprovedError(g.skill_id, g.status)
    ELSE IF ~In(WILDCARD, g.authorised_agents) /\ ~In(agent_id, g.authorised_agents)
         THEN AgentNotAuthorisedError(agent_id, g.skill_id)
         ELSE Ok

\* AuthorisedAgentsGuard.is_permitted
is_permitted(g, agent_id) ==
    LET r == check(g, agent_id)
    IN  IF r.kind = "ok" THEN [kind |-> "return", value |-> TRUE]
        ELSE IF r.kind \in PermissionError THEN [kind |-> "return", value |-> FALSE]
        ELSE r

-----------------------------------------------------------------------------
(* Python values *)

None == "<None>"                     \* YAML null
Truthy(v) == v # None /\ v # ""      \* truthiness of an optional string

Min(S) == CHOOSE x \in S : \A y \in S : x <= y

RECURSIVE FlatMap(_, _, _)
\* the concatenation of F[i] for i = lo..hi, in order
FlatMap(F, lo, hi) == IF lo > hi THEN <<>> ELSE F[lo] \o FlatMap(F, lo + 1, hi)

Opt(cond, x) == IF cond THEN <<x>> ELSE <<>>

\* Text that the code dissects (a regulation, regulations.md) is a sequence
\* of characters; "EMDASH" stands for the em dash the code splits on.
Whitespace == {" "}

Lower(c) == CASE c = "F" -> "f" [] c = "C" -> "c" [] c = "G" -> "g" [] OTHER -> c
LowerStr(s) == [i \in 1..Len(s) |-> Lower(s[i])]

\* sub in text
Contains(text, sub) ==
    \E i \in 1..(Len(text) + 1) :
        /\ i + Len(sub) - 1 <= Len(text)
        /\ \A k \in 1..Len(sub) : text[i + k - 1] = sub[k]

\* reg.split(EMDASH)[0]
SplitDashHead(s) ==
    LET dashes == {i \in 1..Len(s) : s[i] = "EMDASH"}
    IN  IF dashes = {} THEN s ELSE SubSeq(s, 1, Min(dashes) - 1)

\* text.strip().split(): the start and end of the first whitespace-free run,
\* <<>> when the text has none (then [0] raises IndexError)
FirstToken(s) ==
    LET solid == {i \in 1..Len(s) : s[i] \notin Whitespace}
    IN  IF solid = {} THEN <<>>
        ELSE LET a == Min(solid)
                 stops == {i \in a..Len(s) : s[i] \in Whitespace}
                 b == IF stops = {} THEN Len(s) ELSE Min(stops) - 1
             IN  <<SubSeq(s, a, b)>>

-----------------------------------------------------------------------------
(* Python str, for the text the renderer builds: TLA+ strings, read one    *)
(* character at a time with SubSeq                                         *)

Ch(s, i) == SubSeq(s, i, i)

StrWhitespace == {" ", "\n", "\t", "\r"}
LowerAlpha == "abcdefghijklmnopqrstuvwxyz"
UpperAlpha == "ABCDEFGHIJKLMNOPQRSTUVWXYZ"

\* str.upper() and str.lower() of one letter, as functions of the letter
UpperOf ==
    [c \in {Ch(LowerAlpha, i) : i \in 1..Len(LowerAlpha)} |->
        Ch(UpperAlpha, CHOOSE i \in 1..Len(LowerAlpha) : Ch(LowerAlpha, i) = c)]
LowerOf ==
    [c \in {Ch(UpperAlpha, i) : i \in 1..Len(UpperAlpha)} |->
        Ch(LowerAlpha, CHOOSE i \in 1..Len(UpperAlpha) : Ch(UpperAlpha, i) = c)]

IsAlpha(c) == c \in DOMAIN UpperOf \/ c \in DOMAIN LowerOf
ToUpper(c) == IF c \in DOMAIN UpperOf THEN UpperOf[c] ELSE c
ToLower(c) == IF c \in DOMAIN LowerOf THEN LowerOf[c] ELSE c

RECURSIVE FirstSolid(_, _)
\* index of the first non-whitespace character of s from i on, Len(s) + 1 if none
FirstSolid(s, i) ==
    IF i > Len(s) \/ Ch(s, i) \notin StrWhitespace THEN i ELSE FirstSolid(s, i + 1)

RECURSIVE LastSolid(_, _)
\* index of the last non-whitespace character of s up to i, 0 if none
LastSolid(s, i) ==
    IF i < 1 \/ Ch(s, i) \notin StrWhitespace THEN i ELSE LastSolid(s, i - 1)

\* s.rstrip(), s.strip()
StrRStrip(s) == SubSeq(s, 1, LastSolid(s, Len(s)))
StrStrip(s) == SubSeq(s, FirstSolid(s, 1), LastSolid(s, Len(s)))

RECURSIVE FirstBlank(_, _)
\* index of the first whitespace character of s from i on, Len(s) + 1 if none
FirstBlank(s, i) ==
    IF i > Len(s) \/ Ch(s, i) \in StrWhitespace THEN i ELSE FirstBlank(s, i + 1)

RECURSIVE SplitFrom(_, _)
\* s.split() of the text from index i on, i being the start of a word
SplitFrom(s, i) ==
    IF i > Len(s) THEN <<>>
    ELSE <<SubSeq(s, i, FirstBlank(s, i) - 1)>>
         \o SplitFrom(s, FirstSolid(s, FirstBlank(s, i)))

\* s.split()
StrSplit(s) == SplitFrom(s, FirstSolid(s, 1))

RECURSIVE JoinFrom(_, _, _)
JoinFrom(sep, parts, i) ==
    IF i > Len(parts) THEN ""
    ELSE IF i = Len(parts) THEN parts[i]
    ELSE parts[i] \o sep \o JoinFrom(sep, parts, i + 1)

\* sep.join(parts)
StrJoin(sep, parts) == JoinFrom(sep, parts, 1)

RECURSIVE LastSep(_, _, _)
\* index of the last occurrence of character c in s up to i, 0 if none
LastSep(s, c, i) == IF i < 1 \/ Ch(s, i) = c THEN i ELSE LastSep(s, c, i - 1)

\* s.split(c)[-1]
LastSegment(s, c) == SubSeq(s, LastSep(s, c, Len(s)) + 1, Len(s))

RECURSIVE ReplaceFrom(_, _, _, _)
ReplaceFrom(s, old, new, i) ==
    IF i > Len(s) THEN ""
    ELSE (IF Ch(s, i) = old THEN new ELSE Ch(s, i)) \o ReplaceFrom(s, old, new, i + 1)

\* s.replace(old, new) for a one-character old
StrReplace(s, old, new) == ReplaceFrom(s, old, new, 1)

RECURSIVE TitleFrom(_, _, _)
\* s.title() from index i on: a letter is upper-cased unless the character
\* before it is a letter, and lower-cased when it is
TitleFrom(s, i, after_letter) ==
    IF i > Len(s) THEN ""
    ELSE (IF ~IsAlpha(Ch(s, i)) THEN Ch(s, i)
          ELSE IF after_letter THEN ToLower(Ch(s, i)) ELSE ToUpper(Ch(s, i)))
         \o TitleFrom(s, i + 1, IsAlpha(Ch(s, i)))

StrTitle(s) == TitleFrom(s, 1, FALSE)

-----------------------------------------------------------------------------
(* core/validator.py *)

WILDCARD_AGENT == "*"

ValidationError(errors) == [kind |-> "ValidationError", errors |-> errors]
ValueError == [kind |-> "ValueError"]
IndexError == [kind |-> "IndexError"]
Return(v) == [kind |-> "return", value |-> v]

\* load_yaml: a file's yaml is [parse |-> "error"], [parse |-> "scalar"]
\* (parses, but not to a mapping) or [parse |-> "ok", data |-> dict].
load_yaml(file) ==
    IF file.yaml.parse = "ok" THEN Return(file.yaml.data) ELSE ValueError

\* step_id with the explicit id ignored
step_id_ActivityOnly(step) == Get(step, "activity", "?")

\* _step_id
step_id(step) ==
    IF Truthy(Get(step, "id", None)) THEN step.id ELSE Get(step, "activity", "?")

Steps(data) == Get(Get(data, "workflow", EmptyDict), "steps", <<>>)

-----------------------------------------------------------------------------
(* core/renderer.py.  In the text the em dash of the headings and of a     *)
(* regulation is written "~" and the backquote of the Markdown is written  *)
(* with an apostrophe.                                                     *)

EMDASH == "~"
SHARED == "registry/shared"
MAX_DESCRIPTION == 1024

KeyError == [kind |-> "KeyError"]

\* a regulation (a sequence of characters) as the text it stands for
RegText(reg) ==
    StrJoin("", [i \in 1..Len(reg) |-> IF reg[i] = "EMDASH" THEN EMDASH ELSE reg[i]])

\* _skill_id
skill_id_of(skill_data) == Get(Get(skill_data, "metadata", EmptyDict), "id", "unknown")

\* _skill_yml_path
skill_yml_path(skill_data) == "registry/" \o skill_id_of(skill_data) \o "/skill.yml"

\* _inline
inline(text) == StrJoin(" ", StrSplit(text))

\* _cp_display_name
cp_display_name(cp) ==
    IF Truthy(Get(cp, "name", None)) THEN cp.name
    ELSE StrTitle(StrReplace(cp.id, "-", " "))

\* _checkpoint_gate_cmd
checkpoint_gate_cmd(skill_id, cp) ==
    StrJoin(" \\\n",
        <<"python " \o SHARED \o "/checkpoint-gate/scripts/checkpoint_gate.py",
          "  --skill " \o skill_id,
          "  --session ${CLAUDE_SESSION_ID}",
          "  --control-point " \o cp.id,
          "  --classification " \o Get(cp, "classification", "")>>
        \o Opt(Truthy(Get(cp, "who_reviews", None)),
               "  --reviewer \"" \o Get(cp, "who_reviews", "") \o "\"")
        \o Opt(Get(cp, "sla_hours", 0) # 0,
               "  --sla-hours " \o ToString(Get(cp, "sla_hours", 0)))
        \o Opt(Truthy(Get(cp, "escalation_contact", None)),
               "  --contact " \o Get(cp, "escalation_contact", "")))

\* _audit_log_cmd
audit_log_cmd(skill_id, action) ==
    "python " \o SHARED \o "/audit-logging/scripts/audit_log.py \\\n"
    \o "  --skill " \o skill_id \o " \\\n"
    \o "  --session ${CLAUDE_SESSION_ID} \\\n"
    \o "  --action " \o action

\* _validate_activity_cmd
validate_activity_cmd(skill_yml, step) ==
    "python " \o SHARED \o "/validate-activity/scripts/validate_activity.py \\\n"
    \o "  --skill " \o skill_yml \o " \\\n"
    \o "  --step " \o step

\* _halt_comment
halt_comment(classification) ==
    CASE classification = "vetoed" ->
            "# Exit code 2 " \o EMDASH \o " halt all processing immediately."
      [] classification = "needs_approval" ->
            "# PENDING " \o EMDASH \o " halt here and await explicit approval before continuing."
      [] classification = "review" ->
            "# PENDING " \o EMDASH \o " halt here and await reviewer clearance before continuing."
      [] classification = "notify" ->
            "# NOTIFY " \o EMDASH \o " human is informed; agent may continue."
      [] OTHER -> ""

\* _effective_step_id
effective_step_id(step) ==
    IF Truthy(Get(step, "id", None)) THEN step.id ELSE Get(step, "activity", "?")

\* raw_desc[:n], n possibly negative
Prefix(text, n) ==
    IF n >= 0 THEN SubSeq(text, 1, IF n < Len(text) THEN n ELSE Len(text))
    ELSE SubSeq(text, 1, IF Len(text) + n > 0 THEN Len(text) + n ELSE 0)

\* the description line of _frontmatter, cut to _MAX_DESCRIPTION
described(raw_desc, suffix) ==
    (IF Len(raw_desc) + Len(suffix) > MAX_DESCRIPTION
     THEN Prefix(raw_desc, MAX_DESCRIPTION - Len(suffix) - 3) \o "..."
     ELSE raw_desc) \o suffix

\* the text after the description in _frontmatter
suffix_of(meta, ctx) ==
    " Use when " \o Get(meta, "name", "") \o " is needed for "
    \o StrReplace(Get(meta, "business_area", ""), "_", " ") \o " operations."
    \o " Risk: " \o Get(ctx, "risk_classification", "")
    \o ". Authorised agents: " \o StrJoin(", ", Get(meta, "authorised_agents", <<>>)) \o "."

\* _frontmatter
frontmatter(skill_data) ==
    "---\nname: "
    \o LastSegment(Get(Get(skill_data, "metadata", EmptyDict), "id", ""), "/")
    \o "\ndescription: \""
    \o described(inline(Get(Get(skill_data, "context", EmptyDict), "description", "")),
                 suffix_of(Get(skill_data, "metadata", EmptyDict),
                           Get(skill_data, "context", EmptyDict)))
    \o "\"\n---\n"

\* reg_str of _header
reg_str(regs) ==
    IF regs # <<>> THEN StrJoin(" | ", [i \in 1..Len(regs) |-> RegText(regs[i])])
    ELSE "None specified"

\* the text of _header
header_of(meta, ctx, sup) ==
    "# " \o Get(meta, "name", "") \o "\n\n"
    \o "> **Governed Skill** " \o EMDASH \o " Supervisor: " \o Get(sup, "name", "")
    \o " (" \o Get(sup, "role", "") \o ")\n"
    \o "> Risk: **" \o Get(ctx, "risk_classification", "") \o "** | "
    \o "Version: " \o Get(meta, "version", "") \o " | "
    \o "Regulations: " \o reg_str(Get(ctx, "applicable_regulations", <<>>)) \o "\n\n"
    \o "*All steps, controls, and restrictions below are defined by your supervisor. "
    \o "Follow this procedure exactly.*\n\n---"

\* _header
header(skill_data) ==
    header_of(Get(skill_data, "metadata", EmptyDict), Get(skill_data, "context", EmptyDict),
              Get(Get(skill_data, "metadata", EmptyDict), "supervisor", EmptyDict))

\* _initialisation
initialisation(skill_data) ==
    "## Initialisation\n\n"
    \o "Before any other action, record that this skill has been invoked:\n\n"
    \o "'''bash\n" \o audit_log_cmd(skill_id_of(skill_data), "skill_invoked") \o "\n'''\n\n---"

\* the table rows of _approved_activities
activity_rows(activities) ==
    StrJoin("\n", [i \in 1..Len(activities) |->
        "| '" \o activities[i].id \o "' | " \o activities[i].description \o " |"])

\* _approved_activities
approved_activities(skill_data) ==
    "## Approved Activities\n\n"
    \o "You may **only** perform activities listed below. "
    \o "Validate each step before executing:\n\n"
    \o "'''bash\n" \o validate_activity_cmd(skill_yml_path(skill_data), "<step-id>")
    \o "\n'''\n\n"
    \o "If '\"allowed\": false' " \o EMDASH \o " halt immediately and log the attempt.\n\n"
    \o "| Activity ID | Description |\n"
    \o "|-------------|-------------|\n"
    \o activity_rows(Get(skill_data, "approved_activities", <<>>)) \o "\n\n---"

\* the section of _unacceptable_actions for the actions listed
never_do(actions) ==
    IF actions = <<>> THEN ""
    ELSE "## What You Must Never Do\n\n"
         \o StrJoin("\n", [i \in 1..Len(actions) |-> "- " \o actions[i]]) \o "\n\n---"

\* _unacceptable_actions
unacceptable_actions(skill_data) ==
    never_do(Get(Get(skill_data, "constraints", EmptyDict), "unacceptable_actions", <<>>))

\* [cp for cp in cps if Keep(cp)]
Selected(cps, Keep(_)) ==
    FlatMap([i \in 1..Len(cps) |-> Opt(Keep(cps[i]), cps[i])], 1, Len(cps))

\* the fenced command of a control point, with its halt comment if it has one
Fenced(cmd, comment) ==
    IF comment # "" THEN "'''bash\n" \o cmd \o "\n" \o comment \o "\n'''"
    ELSE "'''bash\n" \o cmd \o "\n'''"

\* the lines _vetoed_conditions adds for one control point
vetoed_lines(sid, cp) ==
    <<"### " \o cp.id \o " " \o EMDASH \o " " \o cp_display_name(cp), "",
      inline(Get(cp, "description", ""))>>
    \o (IF Truthy(Get(cp, "trigger", None))
        THEN <<"", "**Trigger:** " \o inline(cp.trigger)>> ELSE <<>>)
    \o <<"", "'''bash\n" \o checkpoint_gate_cmd(sid, cp) \o "\n"
             \o halt_comment("vetoed") \o "\n'''", "">>

\* a section of control points: nothing without control points, else the
\* heading, the lines of each control point and the closing rule
cp_section(heading, cps, Lines(_)) ==
    IF cps = <<>> THEN ""
    ELSE StrJoin("\n", heading \o FlatMap([i \in 1..Len(cps) |-> Lines(cps[i])], 1, Len(cps))
                       \o <<"---">>)

IsVetoed(cp) == Get(cp, "classification", None) = "vetoed"

\* _vetoed_conditions
vetoed_conditions(skill_data) ==
    cp_section(<<"## Vetoed Conditions " \o EMDASH \o " Halt Immediately", "",
                 "If any of these conditions arise, invoke the checkpoint immediately and halt. "
                 \o "No human override is possible.", "">>,
               Selected(Get(skill_data, "control_points", <<>>), IsVetoed),
               LAMBDA cp : vetoed_lines(skill_id_of(skill_data), cp))

\* " | ".join(meta_parts) of a checkpoint
meta_parts(cp) ==
    StrJoin(" | ",
        <<"Classification: **" \o Get(cp, "classification", "") \o "**">>
        \o Opt(Truthy(Get(cp, "who_reviews", None)), "Reviewer: " \o Get(cp, "who_reviews", ""))
        \o Opt(Get(cp, "sla_hours", 0) # 0, "SLA: " \o ToString(Get(cp, "sla_hours", 0)) \o "h"))

\* the lines _oversight_checkpoints adds for one control point
oversight_lines(sid, cp) ==
    <<"### " \o cp.id \o " " \o EMDASH \o " " \o cp_display_name(cp), "",
      meta_parts(cp), "",
      inline(Get(cp, "description", "")), "",
      Fenced(checkpoint_gate_cmd(sid, cp), halt_comment(Get(cp, "classification", ""))),
      "">>

AtStep(cp) ==
    /\ Get(cp, "classification", None) \notin {"vetoed", "auto"}
    /\ Get(cp, "activation", None) = "step"

\* _oversight_checkpoints
oversight_checkpoints(skill_data) ==
    cp_section(<<"## Oversight Checkpoints", "",
                 "These checkpoints are invoked at specific workflow steps (see Workflow section).",
                 "">>,
               Selected(Get(skill_data, "control_points", <<>>), AtStep),
               LAMBDA cp : oversight_lines(skill_id_of(skill_data), cp))

\* the lines _condition_triggered_controls adds for one control point
conditional_lines(sid, cp) ==
    <<"### " \o cp.id \o " " \o EMDASH \o " " \o cp_display_name(cp), "",
      meta_parts(cp), "",
      "**Trigger:** " \o inline(cp.trigger), "",
      inline(Get(cp, "description", "")), "",
      Fenced(checkpoint_gate_cmd(sid, cp), halt_comment(Get(cp, "classification", ""))),
      "">>

OnCondition(cp) ==
    /\ Get(cp, "classification", None) \notin {"vetoed", "auto"}
    /\ Get(cp, "activation", None) = "conditional"

\* _condition_triggered_controls
condition_triggered_controls(skill_data) ==
    cp_section(<<"## Condition-Triggered Controls", "",
                 "These activate when their trigger condition is met during any workflow step.",
                 "">>,
               Selected(Get(skill_data, "control_points", <<>>), OnCondition),
               LAMBDA cp : conditional_lines(skill_id_of(skill_data), cp))

\* the label of a step's control point in _workflow
label(classification) ==
    CASE classification = "auto" -> "auto " \o EMDASH \o " agent proceeds automatically"
      [] classification = "needs_approval" -> "halt and await approval"
      [] classification = "review" -> "halt and await review"
      [] classification = "notify" -> "notify and continue"
      [] OTHER -> classification

\* the last index of seq whose element has the id, 0 when none has
LastWithId(seq, id) ==
    IF \E i \in 1..Len(seq) : seq[i].id = id
    THEN CHOOSE i \in 1..Len(seq) :
            seq[i].id = id /\ \A j \in (i + 1)..Len(seq) : seq[j].id # id
    ELSE 0

\* cp_idx.get(cp_ref) if cp_ref else None, over _cp_index: <<cp>> for the
\* control point the id stands for (the last one with that id), <<>> for None
cp_index(cps, cp_ref) ==
    IF ~Truthy(cp_ref) \/ LastWithId(cps, cp_ref) = 0 THEN <<>>
    ELSE <<cps[LastWithId(cps, cp_ref)]>>

\* activity_map.get(activity_id, activity_id)
activity_map(acts, activity_id) ==
    IF LastWithId(acts, activity_id) = 0 THEN activity_id
    ELSE acts[LastWithId(acts, activity_id)].description

\* a workflow that writes a command for every control point a step names,
\* declared or not
step_cp_lines_GatesUndeclared(sid, cp_ref, found) ==
    IF ~Truthy(cp_ref) THEN <<>>
    ELSE <<"", "Control point **" \o cp_ref \o "** ("
               \o label(IF found = <<>> THEN "" ELSE Get(found[1], "classification", ""))
               \o "):", "",
           Fenced(checkpoint_gate_cmd(sid, IF found = <<>> THEN [id |-> cp_ref]
                                           ELSE found[1]),
                  halt_comment(IF found = <<>> THEN ""
                               ELSE Get(found[1], "classification", "")))>>

\* the lines _workflow adds for the control point of a step
step_cp_lines(sid, cp_ref, found) ==
    IF found = <<>> THEN <<>>
    ELSE <<"", "Control point **" \o cp_ref \o "** ("
               \o label(Get(found[1], "classification", "")) \o "):", "",
           Fenced(checkpoint_gate_cmd(sid, found[1]),
                  halt_comment(Get(found[1], "classification", "")))>>

\* the lines _workflow adds for step i
step_lines(skill_data, i, step, this_step_id) ==
    <<"### Step " \o ToString(i) \o " " \o EMDASH \o " " \o this_step_id, "",
      "**Activity:** "
      \o activity_map(Get(skill_data, "approved_activities", <<>>), Get(step, "activity", "")),
      "",
      "'''bash\n" \o validate_activity_cmd(skill_yml_path(skill_data), this_step_id) \o "\n\n"
      \o audit_log_cmd(skill_id_of(skill_data), this_step_id) \o "\n'''">>
    \o step_cp_lines(skill_id_of(skill_data), Get(step, "control_point", None),
                     cp_index(Get(skill_data, "control_points", <<>>),
                              Get(step, "control_point", None)))
    \o <<"">>

\* the section of _workflow for the steps
workflow_of(skill_data, steps) ==
    IF steps = <<>> THEN ""
    ELSE StrJoin("\n",
            <<"## Workflow", "",
              "Execute steps in this exact order. Do not skip, reorder, or add steps.", "">>
            \o FlatMap([i \in 1..Len(steps) |->
                            step_lines(skill_data, i, steps[i], effective_step_id(steps[i]))],
                       1, Len(steps)))

\* _workflow
workflow(skill_data) ==
    workflow_of(skill_data, Get(Get(skill_data, "workflow", EmptyDict), "steps", <<>>))

\* the subscripts of the renderer that raise KeyError: act['id'] and
\* act['description'] of every activity, cp['id'] of every control point, and
\* cp['trigger'] of a conditional control point that is neither vetoed nor auto
RenderRaises(skill_data) ==
    LET acts == Get(skill_data, "approved_activities", <<>>)
        cps == Get(skill_data, "control_points", <<>>)
    IN  \/ \E i \in 1..Len(acts) : ~Has(acts[i], "id") \/ ~Has(acts[i], "description")
        \/ \E i \in 1..Len(cps) :
            \/ ~Has(cps[i], "id")
            \/ /\ Get(cps[i], "classification", None) \notin {"vetoed", "auto"}
               /\ Get(cps[i], "activation", None) = "conditional"
               /\ ~Has(cps[i], "trigger")

\* "\n".join(s for s in sections if s)
JoinNonEmpty(sections) ==
    StrJoin("\n", FlatMap([i \in 1..Len(sections) |-> Opt(sections[i] # "", sections[i])],
                          1, Len(sections)))

\* the sections with the workflow ahead of the control points
Sections_WorkflowFirst(skill_data) ==
    JoinNonEmpty(<<frontmatter(skill_data), header(skill_data), initialisation(skill_data),
                   approved_activities(skill_data), unacceptable_actions(skill_data),
                   workflow(skill_data), vetoed_conditions(skill_data),
                   oversight_checkpoints(skill_data),
                   condition_triggered_controls(skill_data)>>)

Sections(skill_data) ==
    JoinNonEmpty(<<frontmatter(skill_data), header(skill_data), initialisation(skill_data),
                   approved_activities(skill_data), unacceptable_actions(skill_data),
                   vetoed_conditions(skill_data), oversight_checkpoints(skill_data),
                   condition_triggered_controls(skill_data), workflow(skill_data)>>)

\* render_skill_md keeping a count of its calls: a render that follows
\* another render says so in its text
render_skill_md_CountsCalls(skill_data) ==
    IF RenderRaises(skill_data) THEN KeyError
    ELSE Return(StrRStrip(Sections(skill_data)) \o "\n"
                \o (IF res.op = "render" THEN "rendered again\n" ELSE ""))

\* render_skill_md: the text, or the KeyError of a missing subscript
render_skill_md(skill_data) ==
    IF RenderRaises(skill_data) THEN KeyError
    ELSE Return(StrRStrip(Sections(skill_data)) \o "\n")

-----------------------------------------------------------------------------
(* core/validator.py, continued *)

\* actual.strip() != expected.strip() in _check_skill_md_freshness, with
\* what it returns or raises; expected is the outcome of render_skill_md
stale_warning(id, actual, expected) ==
    IF expected.kind # "return" THEN expected
    ELSE IF StrStrip(actual) # StrStrip(expected.value)
         THEN Return(<<[kind |-> "skill_md_stale", skill |-> id]>>)
         ELSE Return(<<>>)

\* _check_skill_md_freshness.  file.skill_md is the text of the SKILL.md next
\* to the file, None when there is no SKILL.md.
check_skill_md_freshness(file, data) ==
    IF file.skill_md = None
    THEN Return(<<[kind |-> "skill_md_not_found",
                   skill |-> Get(Get(data, "metadata", EmptyDict), "id", "")]>>)
    ELSE stale_warning(Get(Get(data, "metadata", EmptyDict), "id", ""),
                       file.skill_md, render_skill_md(data))

\* the keyword of one regulation in _check_artifact_consistency:
\* reg.split(EMDASH)[0].strip().split()[0] if reg else ""
RegKeyword(reg) ==
    IF reg = <<>> THEN Return(<<>>)
    ELSE LET tok == FirstToken(SplitDashHead(reg))
         IN  IF tok = <<>> THEN IndexError ELSE Return(tok[1])

\* activity id -> script name: aid.replace("-", "_") + ".py"
ScriptOf(aid) ==
    CASE aid = "act1" -> "act1.py"
      [] aid = "act2" -> "act2.py"
      [] aid = "act-3" -> "act_3.py"
      [] OTHER -> "<other>.py"

\* _check_artifact_consistency: the warnings, or the exception it raises.
\* The keys contacts_md, regulations_md and scripts of a file are absent when
\* resources/escalation_contacts.md, resources/regulations.md or scripts/ do
\* not exist.  contacts_md is the set of (lower-case) contacts occurring in
\* the text, regulations_md the text, scripts the *.py names of scripts/ in
\* directory order, registry_dirs the directories under the registry root.
check_artifact_consistency(file, data) ==
    LET cps == Get(data, "control_points", <<>>)
        contacts ==
            IF ~Has(file, "contacts_md") THEN <<>>
            ELSE FlatMap([i \in 1..Len(cps) |->
                    LET contact == Get(cps[i], "escalation_contact", "")
                    IN  Opt(contact # "" /\ contact \notin file.contacts_md,
                            [kind |-> "contact_not_found", cp |-> cps[i].id,
                             contact |-> contact])],
                    1, Len(cps))
        regs == Get(Get(data, "context", EmptyDict), "applicable_regulations", <<>>)
        regRaises ==
            /\ Has(file, "regulations_md")
            /\ \E i \in 1..Len(regs) : RegKeyword(regs[i]).kind = "IndexError"
        regulations ==
            IF ~Has(file, "regulations_md") THEN <<>>
            ELSE FlatMap([i \in 1..Len(regs) |->
                    LET keyword == RegKeyword(regs[i]).value
                    IN  Opt(keyword # <<>> /\
                            ~Contains(LowerStr(file.regulations_md), LowerStr(keyword)),
                            [kind |-> "regulation_not_found", regulation |-> regs[i]])],
                    1, Len(regs))
        steps == Steps(data)
        shared ==
            FlatMap([i \in 1..Len(steps) |->
                    LET uses == Get(steps[i], "uses_skill", "")
                    IN  Opt(uses # "" /\ uses \notin file.registry_dirs,
                            [kind |-> "uses_skill_missing", step |-> step_id(steps[i]),
                             uses_skill |-> uses])],
                    1, Len(steps))
        declared == Get(Get(data, "artifacts", EmptyDict), "scripts", <<>>)
        declared_scripts == {Get(declared[i], "file", "") : i \in 1..Len(declared)}
        acts == Get(data, "approved_activities", <<>>)
        referenced_in_activities ==
            {ScriptOf(acts[i].id) : i \in {j \in 1..Len(acts) : Get(acts[j], "id", "") # ""}}
        scripts ==
            IF ~Has(file, "scripts") THEN <<>>
            ELSE FlatMap([i \in 1..Len(file.scripts) |->
                    Opt(file.scripts[i] \notin declared_scripts /\
                        file.scripts[i] \notin referenced_in_activities,
                        [kind |-> "script_unreferenced", script |-> file.scripts[i]])],
                    1, Len(file.scripts))
    IN  IF regRaises THEN IndexError
        ELSE Return(contacts \o regulations \o shared \o scripts)

\* the end of _collect_warnings for a skill.yml: the freshness warnings, then
\* the artifact warnings, or the first exception of the two calls
with_artifacts(core, freshness, artifact) ==
    IF freshness.kind # "return" THEN freshness
    ELSE IF artifact.kind # "return" THEN artifact
    ELSE Return(core \o freshness.value \o artifact.value)

\* _collect_warnings: the warnings, or the exception that escapes it
collect_warnings(file, data) ==
    LET meta == Get(data, "metadata", EmptyDict)
        agents == Get(meta, "authorised_agents", <<>>)
        wildcard == Opt(In(WILDCARD_AGENT, agents), [kind |-> "wildcard_agents"])
        status == Get(meta, "status", "")
        approval ==
            IF status = "approved"
            THEN Opt(~Truthy(Get(meta, "approved_at", None)), [kind |-> "approved_at_null"])
                 \o Opt(~Truthy(Get(meta, "approved_by", None)), [kind |-> "approved_by_null"])
            ELSE <<>>
        acts == Get(data, "approved_activities", <<>>)
        approved_ids == {acts[i].id : i \in 1..Len(acts)}
        steps == Steps(data)
        activities ==
            FlatMap([i \in 1..Len(steps) |->
                    LET activity == Get(steps[i], "activity", "")
                    IN  Opt(activity # "" /\ activity \notin approved_ids,
                            [kind |-> "activity_not_found", step |-> step_id(steps[i]),
                             activity |-> activity])],
                    1, Len(steps))
        referenced_cps ==
            {steps[i].control_point :
                i \in {j \in 1..Len(steps) : Truthy(Get(steps[j], "control_point", None))}}
        cps == Get(data, "control_points", <<>>)
        unreferenced ==
            FlatMap([i \in 1..Len(cps) |->
                    Opt(Get(cps[i], "activation", None) = "step" /\
                        cps[i].id \notin referenced_cps,
                        [kind |-> "control_point_unreferenced", cp |-> cps[i].id])],
                    1, Len(cps))
        core == wildcard \o approval \o activities \o unreferenced
    IN  IF file.name # "skill.yml" THEN Return(core)
        ELSE with_artifacts(core, check_skill_md_freshness(file, data),
                            check_artifact_consistency(file, data))

-----------------------------------------------------------------------------
(* The structural schema (schema/skill.schema.json) as the validator's     *)
(* iter_errors sees it: every violation, each with the path of the         *)
(* offending element, in the order the schema is walked.                   *)

Statuses == {"approved", "draft", "deprecated"}
Classifications == {"auto", "notify", "review", "needs_approval", "vetoed"}
Activations == {"conditional", "step"}
NeedsReviewer == {"review", "needs_approval", "notify"}

\* array index as a path element
Idx(i) == <<"0", "1", "2", "3", "4">>[i + 1]

SchemaError(path, message) == [path |-> path, message |-> message]

Required(d, keys, path) ==
    FlatMap([i \in 1..Len(keys) |->
                Opt(~Has(d, keys[i]), SchemaError(path, <<"required", keys[i]>>))],
            1, Len(keys))

MetadataErrors(meta) ==
    Required(meta, <<"id", "status", "authorised_agents", "schema_version">>, <<"metadata">>)
    \o Opt(Has(meta, "status") /\ Get(meta, "status", None) \notin Statuses,
           SchemaError(<<"metadata", "status">>, <<"enum">>))
    \o Opt(Has(meta, "schema_version") /\ Get(meta, "schema_version", None) # "1.0",
           SchemaError(<<"metadata", "schema_version">>, <<"const">>))

ControlPointErrors(cp, i) ==
    LET path == <<"control_points", Idx(i)>>
        classification == Get(cp, "classification", None)
        activation == Get(cp, "activation", None)
    IN  Required(cp, <<"id", "classification", "activation">>, path)
        \o Opt(Has(cp, "classification") /\ classification \notin Classifications,
               SchemaError(path \o <<"classification">>, <<"enum">>))
        \o Opt(Has(cp, "activation") /\ activation \notin Activations,
               SchemaError(path \o <<"activation">>, <<"enum">>))
        \o Opt(activation = "conditional" /\ ~Has(cp, "trigger"),
               SchemaError(path, <<"required", "trigger">>))
        \o Opt(classification \in NeedsReviewer /\ ~Has(cp, "who_reviews"),
               SchemaError(path, <<"required", "who_reviews">>))
        \o Opt(classification = "vetoed" /\ ~Has(cp, "escalation_contact"),
               SchemaError(path, <<"required", "escalation_contact">>))

iter_errors(data) ==
    LET acts == Get(data, "approved_activities", <<>>)
        cps == Get(data, "control_points", <<>>)
        steps == Steps(data)
    IN  Required(data, <<"metadata", "approved_activities", "control_points">>, <<>>)
        \o (IF Has(data, "metadata") THEN MetadataErrors(data.metadata) ELSE <<>>)
        \o Opt(Has(data, "approved_activities") /\ acts = <<>>,
               SchemaError(<<"approved_activities">>, <<"minItems">>))
        \o Opt(Has(data, "control_points") /\ cps = <<>>,
               SchemaError(<<"control_points">>, <<"minItems">>))
        \o FlatMap([i \in 1..Len(cps) |-> ControlPointErrors(cps[i], i - 1)], 1, Len(cps))
        \o FlatMap([i \in 1..Len(steps) |->
                       Required(steps[i], <<"activity">>, <<"workflow", "steps", Idx(i - 1)>>)],
                   1, Len(steps))

-----------------------------------------------------------------------------
(* validate_skill *)

\* Python's order on the elements of an error path: array indexes compare
\* as integers, keys as strings; one position never holds both.
PathElems ==
    <<"0", "1", "2", "3", "4", "activation", "approved_activities", "classification",
      "control_points", "metadata", "schema_version", "status", "steps", "workflow">>

Rank(e) == CHOOSE i \in 1..Len(PathElems) : PathElems[i] = e

\* list(p) < list(q)
PathLess(p, q) ==
    LET n == IF Len(p) < Len(q) THEN Len(p) ELSE Len(q)
        diff == {i \in 1..n : p[i] # q[i]}
    IN  IF diff = {} THEN Len(p) < Len(q)
        ELSE Rank(p[Min(diff)]) < Rank(q[Min(diff)])

\* insert e behind every element whose key is not greater (stable)
InsertByPath(e, sorted) ==
    LET later == {i \in 1..Len(sorted) : PathLess(e.path, sorted[i].path)}
        k == IF later = {} THEN Len(sorted) + 1 ELSE Min(later)
    IN  SubSeq(sorted, 1, k - 1) \o <<e>> \o SubSeq(sorted, k, Len(sorted))

RECURSIVE SortedByPath(_)
\* sorted(errors, key=lambda e: list(e.path))
SortedByPath(errors) ==
    IF errors = <<>> THEN <<>>
    ELSE InsertByPath(errors[Len(errors)], SortedByPath(SubSeq(errors, 1, Len(errors) - 1)))

\* _format_jsonschema_error: "[a -> b] message", "[root] message" at the root
format_jsonschema_error(error) ==
    [tag     |-> IF error.path # <<>> THEN error.path ELSE <<"root">>,
     message |-> error.message]

\* validate_skill that never promotes warnings
validate_skill_NoPromotion(file, strict) ==
    LET loaded_yaml == load_yaml(file)
    IN  IF loaded_yaml.kind # "return" THEN loaded_yaml
        ELSE
        LET data == loaded_yaml.value
            raw_errors == SortedByPath(iter_errors(data))
        IN  IF raw_errors # <<>>
            THEN ValidationError([i \in 1..Len(raw_errors) |->
                                     format_jsonschema_error(raw_errors[i])])
            ELSE collect_warnings(file, data)

\* validate_skill that fails fast on the first structural violation
validate_skill_FailFast(file, strict) ==
    LET loaded_yaml == load_yaml(file)
    IN  IF loaded_yaml.kind # "return" THEN loaded_yaml
        ELSE
        LET data == loaded_yaml.value
            raw_errors == iter_errors(data)
        IN  IF raw_errors # <<>>
            THEN ValidationError(<<format_jsonschema_error(raw_errors[1])>>)
            ELSE
            LET warnings == collect_warnings(file, data)
            IN  IF warnings.kind # "return" THEN warnings
                ELSE IF strict /\ warnings.value # <<>>
                     THEN ValidationError(warnings.value)
                     ELSE warnings

\* validate_skill that reports structural violations as warnings unless strict
validate_skill_SchemaAsWarnings(file, strict) ==
    LET loaded_yaml == load_yaml(file)
    IN  IF loaded_yaml.kind # "return" THEN loaded_yaml
        ELSE
        LET data == loaded_yaml.value
            raw_errors == SortedByPath(iter_errors(data))
            messages == [i \in 1..Len(raw_errors) |-> format_jsonschema_error(raw_errors[i])]
        IN  IF raw_errors # <<>>
            THEN (IF strict THEN ValidationError(messages) ELSE Return(messages))
            ELSE
            LET warnings == collect_warnings(file, data)
            IN  IF warnings.kind # "return" THEN warnings
                ELSE IF strict /\ warnings.value # <<>>
                     THEN ValidationError(warnings.value)
                     ELSE warnings

validate_skill(file, strict) ==
    LET loaded_yaml == load_yaml(file)
    IN  IF loaded_yaml.kind # "return" THEN loaded_yaml
        ELSE
        LET data == loaded_yaml.value
            raw_errors == SortedByPath(iter_errors(data))
        IN  IF raw_errors # <<>>
            THEN ValidationError([i \in 1..Len(raw_errors) |->
                                     format_jsonschema_error(raw_errors[i])])
            ELSE
            LET warnings == collect_warnings(file, data)
            IN  IF warnings.kind # "return" THEN warnings
                ELSE IF strict /\ warnings.value # <<>>
                     THEN ValidationError(warnings.value)
                     ELSE warnings

-----------------------------------------------------------------------------
(* Inputs of the guard: raw dicts, any key of metadata possibly absent *)

SkillIds == {"a/x", "b/y"}
AgentIds == {"a1", "a2", WILDCARD}
RawStatuses == Statuses \cup {"pending"}

OptField(key, values) == {EmptyDict} \cup {[k \in {key} |-> v] : v \in values}

Merge(f, g) == [k \in DOMAIN f \cup DOMAIN g |-> IF k \in DOMAIN f THEN f[k] ELSE g[k]]

GuardMetas ==
    {Merge(a, Merge(b, c)) :
        a \in OptField("id", {"a/x"}),
        b \in OptField("status", RawStatuses),
        c \in OptField("authorised_agents", SeqsUpTo(AgentIds, MaxAgents))}

GuardDocs == {EmptyDict} \cup {[metadata |-> m] : m \in GuardMetas}

NoGuard == [skill_id |-> "<none>", status |-> "<none>", authorised_agents |-> <<>>]

GuardStart ==
    /\ store = <<>>
    /\ cache = EmptyDict
    /\ loaded = FALSE
    /\ gdoc = EmptyDict
    /\ guard = NoGuard
    /\ vfile = EmptyDict
    /\ runner = NoRunner
    /\ loader = NoLoader
    /\ res = NoResult

Construct ==
    \E d \in GuardDocs :
        /\ gdoc' = d
        /\ guard' = GuardInit(d)
        /\ res' = [op |-> "construct", kind |-> "ok"]
        /\ UNCHANGED <<runner, loader, store, cache, loaded, vfile>>

Check ==
    \E agent_id \in AgentIds :
        /\ res.op # "none"
        /\ LET out == check(guard, agent_id)
           IN  res' = [op |-> "check", agent_id |-> agent_id, out |-> out, kind |-> out.kind]
        /\ UNCHANGED <<runner, loader, store, cache, loaded, gdoc, guard, vfile>>

IsPermitted ==
    \E agent_id \in AgentIds :
        /\ res.op # "none"
        /\ LET out == is_permitted(guard, agent_id)
           IN  res' = [op |-> "is_permitted", agent_id |-> agent_id, out |-> out,
                       kind |-> out.kind]
        /\ UNCHANGED <<runner, loader, store, cache, loaded, gdoc, guard, vfile>>

GuardNext == Construct \/ Check \/ IsPermitted

SpecGuard == GuardStart /\ [][GuardNext]_vars

-----------------------------------------------------------------------------
(* Claims about the guard, checked under SpecGuard *)

DocMeta == Get(gdoc, "metadata", EmptyDict)
DocStatus == IF Has(DocMeta, "status") THEN DocMeta.status ELSE "draft"
DocAgents == IF Has(DocMeta, "authorised_agents") THEN DocMeta.authorised_agents ELSE <<>>
DocId == IF Has(DocMeta, "id") THEN DocMeta.id ELSE "<unknown>"
Listed(agent_id) == \E i \in 1..Len(DocAgents) : DocAgents[i] \in {agent_id, "*"}

\* C1: a check against a document whose status is not approved (draft,
\* deprecated, any other value, or missing and defaulted to draft) fails with
\* the not-approved error carrying that status, whatever authorised_agents
\* holds; it is never the not-authorised error.
C1_StatusDominatesAllowlist ==
    (res.op = "check" /\ DocStatus # "approved") =>
        /\ res.out.kind = "SkillNotApprovedError"
        /\ res.out.status = DocStatus

C1_Witness ==
    /\ res.op = "check"
    /\ DocStatus = "deprecated"
    /\ \E i \in 1..Len(DocAgents) : DocAgents[i] = "*"
    /\ res.out.kind = "SkillNotApprovedError"

\* C2: a check against an approved document succeeds exactly when the agent
\* is listed or the wildcard is listed, and otherwise fails with the
\* not-authorised error carrying the agent id and the document id;
\* is_permitted returns TRUE exactly when check would not raise.
C2_AllowlistDecidesApproved ==
    /\ (res.op = "check" /\ DocStatus = "approved") =>
        IF Listed(res.agent_id)
        THEN res.out.kind = "ok"
        ELSE /\ res.out.kind = "AgentNotAuthorisedError"
             /\ res.out.agent_id = res.agent_id
             /\ res.out.skill_id = DocId
    /\ res.op = "is_permitted" =>
        /\ res.out.kind = "return"
        /\ res.out.value = (DocStatus = "approved" /\ Listed(res.agent_id))

C2_Witness ==
    /\ res.op = "is_permitted"
    /\ DocStatus = "approved"
    /\ DocAgents = <<"a1", "*">>
    /\ res.agent_id = "a2"
    /\ res.out.value = TRUE

-----------------------------------------------------------------------------
(* Documents and files handed to validate_skill *)

Activity(id) == [id |-> id, description |-> "does " \o id]

Metadata(id, area, status, agents, approval) ==
    Merge([id |-> id, name |-> "skill", business_area |-> area, schema_version |-> "1.0",
           authorised_agents |-> agents],
          Merge(status, approval))

cpReview == [id |-> "cp1", description |-> "review the output", classification |-> "review",
             activation |-> "step", who_reviews |-> "reviewer"]
cpVeto == [id |-> "cp2", description |-> "halt", classification |-> "vetoed",
           activation |-> "conditional", trigger |-> "errors exceeded",
           escalation_contact |-> "ops"]
cpVetoNoContact == [id |-> "cp2", description |-> "halt", classification |-> "vetoed",
                    activation |-> "conditional", trigger |-> "errors exceeded"]
cpNoTriggerNoReviewer == [id |-> "cp3", description |-> "approve",
                          classification |-> "needs_approval", activation |-> "conditional"]
cpBadClassification == [id |-> "cp4", description |-> "nothing",
                        classification |-> "do_nothing", activation |-> "step"]

cpNotifyNoReviewer == [id |-> "cp5", description |-> "tell", classification |-> "notify",
                       activation |-> "step"]

ControlPoints ==
    {cpReview, cpVetoNoContact, cpNoTriggerNoReviewer, cpBadClassification, cpNotifyNoReviewer}

StepPool ==
    {[activity |-> "act1"],
     [activity |-> "act1", control_point |-> "cp1"],
     [activity |-> "act3"],
     [activity |-> "act3", id |-> "s1"],
     [activity |-> "act4", id |-> "s2", control_point |-> "cp1"]}

\* status, allowlist and approval of the documents validated
MetaCases ==
    {[st |-> "approved", agents |-> <<"a1">>,
      approval |-> [approved_at |-> "2026-01-05", approved_by |-> "hub"]],
     [st |-> "approved", agents |-> <<"a1", WILDCARD_AGENT>>,
      approval |-> [approved_at |-> "2026-01-05", approved_by |-> None]],
     [st |-> "approved", agents |-> <<"a1">>,
      approval |-> [approved_at |-> None, approved_by |-> None]],
     [st |-> "draft", agents |-> <<"a1">>,
      approval |-> [approved_at |-> None, approved_by |-> None]]}

Document(meta, acts, cps, steps) ==
    [metadata |-> meta,
     context |-> [description |-> "what it governs", risk_classification |-> "high"],
     approved_activities |-> acts,
     control_points |-> cps,
     workflow |-> [steps |-> steps]]

WithRegulations(data, regs) ==
    [data EXCEPT !.context = Merge([applicable_regulations |-> regs], data.context)]

\* the SKILL.md next to a document: none, the text `render` wrote for the
\* document, that text with blank space around it, or that text edited by hand
StoredSkillMd(data, md) ==
    CASE md = "missing" -> None
      [] md = "in_sync" -> render_skill_md(data).value
      [] md = "padded" -> "\n  " \o render_skill_md(data).value \o " \n\n"
      [] md = "out_of_sync" -> render_skill_md(data).value \o "- edited by hand\n"

SkillFile(name, data, md, extras) ==
    Merge([name |-> name, yaml |-> [parse |-> "ok", data |-> data],
           skill_md |-> StoredSkillMd(data, md),
           registry_dirs |-> {"shared"}],
          extras)

MalformedFiles ==
    {[name |-> "skill.yml", yaml |-> [parse |-> p], skill_md |-> None,
      registry_dirs |-> {"shared"}] : p \in {"error", "scalar"}}

\* regulations as the code dissects them, with the regulations.md they meet
RegFCA == <<"F", "C", " ", "EMDASH", " ", "x">>
RegGDPR == <<"G">>
RegNoKeyword == <<" ", "EMDASH", " ", "x">>
RegCases ==
    {[regs |-> <<>>, extras |-> EmptyDict],
     [regs |-> <<RegFCA, RegGDPR, <<>> >>, extras |-> EmptyDict],
     [regs |-> <<RegFCA, RegGDPR, <<>> >>, extras |-> [regulations_md |-> <<"#", " ", "f", "c">>]],
     [regs |-> <<RegFCA, RegNoKeyword>>, extras |-> EmptyDict],
     [regs |-> <<RegFCA, RegNoKeyword>>, extras |-> [regulations_md |-> <<"#", " ", "f", "c">>]]}

\* a file name with the SKILL.md next to it: only a skill.yml has one
Placements ==
    {[name |-> "skill.yml", md |-> "missing"], [name |-> "skill.yml", md |-> "in_sync"],
     [name |-> "skill.yml", md |-> "padded"], [name |-> "skill.yml", md |-> "out_of_sync"],
     [name |-> "other.yml", md |-> "missing"]}

\* files whose warnings vary with the workflow or with the metadata
WorkflowFiles ==
    {SkillFile(pl.name,
               Document(Metadata("a/x", "a", [status |-> v.mc.st], v.mc.agents, v.mc.approval),
                        <<Activity("act1"), Activity("act2")>>, <<cpReview, cpVeto>>, v.steps),
               pl.md, EmptyDict) :
        pl \in {q \in Placements : q.md \in {"missing", "in_sync"}},
        v \in {[mc |-> mc, steps |-> <<[activity |-> "act3"]>>] : mc \in MetaCases}
              \cup {[mc |-> CHOOSE mc \in MetaCases : mc.st = "draft", steps |-> steps] :
                        steps \in SeqsUpTo(StepPool, MaxSteps)}}

\* files whose warnings vary with the artifacts next to skill.yml
ArtifactFiles ==
    {SkillFile(pl.name,
               WithRegulations(
                   Document(Metadata("a/x", "a", [status |-> "approved"], <<"a1">>,
                                     [approved_at |-> "2026-01-05", approved_by |-> "hub"]),
                            <<Activity("act1")>>, <<cpReview, cpVeto>>, steps),
                   rc.regs),
               pl.md, Merge(rc.extras, Merge(contacts, scripts))) :
        pl \in Placements,
        steps \in {<<[activity |-> "act1", control_point |-> "cp1"]>>,
                   <<[activity |-> "act3", uses_skill |-> "gone"]>>},
        rc \in RegCases,
        contacts \in OptField("contacts_md", {{}, {"ops"}}),
        scripts \in OptField("scripts", {<<"x.py", "act1.py">>})}

\* files whose documents break the structural schema in zero or more places
StructureFiles ==
    {SkillFile("skill.yml",
               Document(Merge(sv.ver, Metadata("a/x", "a", sv.st, <<WILDCARD_AGENT>>, EmptyDict)),
                        w.acts, cps, w.steps),
               "missing", EmptyDict) :
        sv \in {[st |-> [status |-> "approved"], ver |-> EmptyDict],
                [st |-> [status |-> "pending"], ver |-> EmptyDict],
                [st |-> EmptyDict, ver |-> [schema_version |-> "99.0"]]},
        w \in {[acts |-> <<Activity("act1")>>, steps |-> <<[activity |-> "act3"]>>],
               [acts |-> <<>>, steps |-> <<>>],
               [acts |-> <<Activity("act1")>>, steps |-> <<[id |-> "s1"]>>]},
        cps \in SeqsUpTo(ControlPoints, MaxCPs)}

ValidatedFiles == MalformedFiles \cup WorkflowFiles \cup ArtifactFiles \cup StructureFiles

ValidateStart ==
    /\ res = NoResult
    /\ store = <<>>
    /\ cache = EmptyDict
    /\ loaded = FALSE
    /\ gdoc = EmptyDict
    /\ guard = NoGuard
    /\ runner = NoRunner
    /\ loader = NoLoader
    /\ vfile \in ValidatedFiles

\* validate_skill(path, strict) on the file; prev keeps the call before it,
\* rendered whether the render command has just written the file's SKILL.md
ValidateSkill ==
    \E strict \in BOOLEAN :
        /\ \E out \in {validate_skill(vfile, strict)} :
               res' = [op |-> "validate_skill", strict |-> strict,
                       out |-> out, kind |-> out.kind,
                       prev |-> IF res.op = "validate_skill"
                                THEN [strict |-> res.strict, out |-> res.out]
                                ELSE [strict |-> TRUE, out |-> NoResult],
                       rendered |-> res.op = "render" /\ res.kind = "written"]
        /\ UNCHANGED <<runner, loader, store, cache, loaded, gdoc, guard, vfile>>

-----------------------------------------------------------------------------
(* Claims about validate_skill, checked under SpecValidate *)

Validated == res.op = "validate_skill"
ParsedData == vfile.yaml.data
StructurallyValid == vfile.yaml.parse = "ok" /\ iter_errors(ParsedData) = <<>>

\* C8: for a structurally valid document whose non-strict validation returned
\* the warning list W, a following strict validation raises ValidationError
\* exactly when W is non-empty, with the messages of W in the same order as
\* its errors, and returns the empty list when W is empty.
C8_StrictPromotesWarnings ==
    (Validated /\ res.strict /\ ~res.prev.strict /\ res.prev.out.kind = "return") =>
        LET W == res.prev.out.value
        IN  /\ StructurallyValid
            /\ res.kind = "ValidationError" <=> W # <<>>
            /\ W # <<>> => res.out.errors = W
            /\ W = <<>> => res.out = Return(<<>>)

C8_Witness ==
    /\ Validated /\ res.strict /\ ~res.prev.strict
    /\ res.prev.out.kind = "return"
    /\ Len(res.prev.out.value) >= 3
    /\ res.kind = "ValidationError"

\* the warnings the claim expects for the steps whose activity is not approved
DanglingSteps ==
    LET acts == ParsedData.approved_activities
        steps == ParsedData.workflow.steps
    IN  SelectSeq(steps, LAMBDA st : \A i \in 1..Len(acts) : acts[i].id # st.activity)

EffectiveId(st) == IF Has(st, "id") THEN st.id ELSE st.activity

IsActivityWarning(w) == Has(w, "kind") /\ w.kind = "activity_not_found"

NamesStepAndActivity(ws) ==
    /\ Len(ws) = Len(DanglingSteps)
    /\ \A i \in 1..Len(ws) :
        /\ ws[i].step = EffectiveId(DanglingSteps[i])
        /\ ws[i].activity = DanglingSteps[i].activity

\* C9: validating a structurally valid document returns, for the steps whose
\* activity is not an approved activity, one warning each, in workflow order,
\* naming the step's effective id and the activity; strict validation of a
\* document with such a step never returns normally, and the ValidationError
\* it raises carries those messages.
C9_DanglingActivityWarned ==
    (Validated /\ StructurallyValid) =>
        /\ res.kind = "return" =>
            NamesStepAndActivity(SelectSeq(res.out.value, IsActivityWarning))
        /\ (res.strict /\ DanglingSteps # <<>>) => res.kind # "return"
        /\ (res.strict /\ res.kind = "ValidationError") =>
            NamesStepAndActivity(SelectSeq(res.out.errors, IsActivityWarning))

\* C9 in full: non-strict validation of a structurally valid document returns,
\* and what it returns holds one warning per step whose activity is not an
\* approved activity, in workflow order, naming the step's effective id and
\* the activity; strict validation of a document with such a step raises.
C9_DanglingActivityReturned ==
    (Validated /\ StructurallyValid) =>
        /\ ~res.strict =>
            /\ res.kind = "return"
            /\ NamesStepAndActivity(SelectSeq(res.out.value, IsActivityWarning))
        /\ (res.strict /\ DanglingSteps # <<>>) => res.kind # "return"

C9_Witness ==
    /\ Validated /\ StructurallyValid /\ ~res.strict /\ res.kind = "return"
    /\ Len(DanglingSteps) = 2
    /\ Has(DanglingSteps[1], "id") /\ ~Has(DanglingSteps[2], "id")
    /\ DanglingSteps[1].activity # DanglingSteps[2].activity

TagPath(m) == IF m.tag = <<"root">> THEN <<>> ELSE m.tag

Count(seq, P(_)) == Cardinality({i \in 1..Len(seq) : P(seq[i])})

\* C10: a document with structural violations makes validate_skill raise a
\* ValidationError with one message per violation, each tagged with the path
\* of its violation, in path order, and without any warning message.
C10_AllStructuralErrorsCollected ==
    (Validated /\ vfile.yaml.parse = "ok" /\ iter_errors(ParsedData) # <<>>) =>
        LET violations == iter_errors(ParsedData)
            errors == res.out.errors
        IN  /\ res.kind = "ValidationError"
            /\ Len(errors) = Len(violations)
            /\ \A i \in 1..Len(violations) :
                Count(errors, LAMBDA m : Has(m, "tag") /\ TagPath(m) = violations[i].path
                                         /\ m.message = violations[i].message)
                = Count(violations, LAMBDA v : v = violations[i])
            /\ \A i \in 1..Len(errors) : Has(errors[i], "tag") /\ ~Has(errors[i], "kind")
            /\ \A i, j \in 1..Len(errors) :
                i < j => ~PathLess(TagPath(errors[j]), TagPath(errors[i]))

C10_Witness ==
    /\ Validated /\ vfile.yaml.parse = "ok" /\ res.kind = "ValidationError"
    /\ Len(iter_errors(ParsedData)) >= 3
    /\ \E i \in 1..(Len(iter_errors(ParsedData)) - 1) :
        PathLess(iter_errors(ParsedData)[i + 1].path, iter_errors(ParsedData)[i].path)
    /\ In(WILDCARD_AGENT, ParsedData.metadata.authorised_agents)

-----------------------------------------------------------------------------
(* core/registry.py *)

SkillNotFoundError == [kind |-> "SkillNotFoundError"]

\* check_access(skill_data, agent_id): the access-control gate on one dict
check_access(skill_data, agent_id) == check(GuardInit(skill_data), agent_id)

\* d[key] = value
Put(d, key, value) == [k \in DOMAIN d \cup {key} |-> IF k = key THEN value ELSE d[k]]

\* the exceptions _load_skill_file catches after ValidationError
CaughtMalformed == {"KeyError", "ValueError"}

\* the end of _load_skill_file: a file whose validation raised ValidationError,
\* KeyError or ValueError is skipped, any other exception escapes, and a
\* validated document is cached under its id with its directory
cache_validated(c, file, path, validated) ==
    IF validated.kind = "ValidationError" \/ validated.kind \in CaughtMalformed
    THEN [cache |-> c, out |-> Ok]
    ELSE IF validated.kind # "return"
    THEN [cache |-> c, out |-> validated]
    ELSE [cache |-> Put(c, load_yaml(file).value.metadata.id,
                        Merge([_skill_dir |-> path], load_yaml(file).value)),
          out |-> Ok]

\* _load_skill_file: the cache after the file at `path`, and the exception
\* that escapes it, if any
load_skill_file(c, files, path) ==
    cache_validated(c, files[path], path, validate_skill(files[path], FALSE))

RECURSIVE LoadFiles(_, _, _)
\* the loop of load over sorted(rglob("skill.yml")), from `path` on, given the
\* cache and outcome `sofar` of the files before it
LoadFiles(sofar, files, path) ==
    IF path > Len(files) \/ sofar.out.kind # "ok" THEN sofar
    ELSE LoadFiles(load_skill_file(sofar.cache, files, path), files, path + 1)

\* the end of load: _loaded is set only when the loop completed
loaded_after(l, scan) ==
    [cache |-> scan.cache, loaded |-> (IF scan.out.kind = "ok" THEN TRUE ELSE l),
     out |-> scan.out]

\* SkillRegistry.load: the registry's fields afterwards, and the outcome
load(c, l, files, force_reload) ==
    IF l /\ ~force_reload THEN [cache |-> c, loaded |-> l, out |-> Ok]
    ELSE loaded_after(l, LoadFiles([cache |-> EmptyDict, out |-> Ok], files, 1))

\* get_skill with the access check made before the lookup in the cache
get_skill_AccessFirst(c, skill_id, agent_id) ==
    LET skill_data == IF skill_id \in DOMAIN c THEN c[skill_id] ELSE EmptyDict
        access == IF agent_id # None THEN check_access(skill_data, agent_id) ELSE Ok
    IN  IF access.kind # "ok" THEN access
        ELSE IF skill_id \notin DOMAIN c THEN SkillNotFoundError
        ELSE Return(skill_data)

\* get_skill with the access check made whether or not an agent id is given
get_skill_AlwaysGated(c, skill_id, agent_id) ==
    IF skill_id \notin DOMAIN c THEN SkillNotFoundError
    ELSE LET access == check_access(c[skill_id], agent_id)
         IN  IF access.kind # "ok" THEN access ELSE Return(c[skill_id])

\* SkillRegistry.get_skill after its load(): the outcome on cache c
get_skill(c, skill_id, agent_id) ==
    IF skill_id \notin DOMAIN c THEN SkillNotFoundError
    ELSE LET skill_data == c[skill_id]
             access == IF agent_id # None THEN check_access(skill_data, agent_id) ELSE Ok
         IN  IF access.kind # "ok" THEN access ELSE Return(skill_data)

\* the order of ids under sorted()
SortedIds == <<"a/x", "b/y", "n/z">>

\* SkillRegistry.list_skills after its load(): the summaries on cache c
list_skills(c, business_area, status) ==
    LET keep(skill_data) ==
            LET meta == Get(skill_data, "metadata", EmptyDict)
            IN  /\ ~(Truthy(business_area) /\ Get(meta, "business_area", None) # business_area)
                /\ ~(Truthy(status) /\ Get(meta, "status", None) # status)
        summary(skill_data) ==
            Put(Get(skill_data, "metadata", EmptyDict), "risk_classification",
                Get(Get(skill_data, "context", EmptyDict), "risk_classification", ""))
    IN  FlatMap([i \in 1..Len(SortedIds) |->
                    IF SortedIds[i] \in DOMAIN c /\ keep(c[SortedIds[i]])
                    THEN <<summary(c[SortedIds[i]])>> ELSE <<>>],
                1, Len(SortedIds))

\* list_skills with summary = meta in place of summary = dict(meta): the
\* risk_classification is written into the cached metadata
listed_NoCopy(c, business_area, status) ==
    [id \in DOMAIN c |->
        Put(c[id], "metadata",
            Put(Get(c[id], "metadata", EmptyDict), "risk_classification",
                Get(Get(c[id], "context", EmptyDict), "risk_classification", "")))]

\* the cache after list_skills: each summary is dict(meta), a copy, and the
\* risk_classification written to it does not reach the cached document
listed(c, business_area, status) == c

-----------------------------------------------------------------------------
(* The document store of the registry *)

GoodApproval == [approved_at |-> "2026-01-05", approved_by |-> "hub"]

StoreFile(id, area, status, agents, activity, regs, md, extras) ==
    SkillFile("skill.yml",
              WithRegulations(
                  Document(Metadata(id, area, [status |-> status], agents, GoodApproval),
                           <<Activity("act1")>>, <<cpReview, cpVeto>>,
                           <<[activity |-> activity, control_point |-> "cp1"]>>),
                  regs),
              md, extras)

\* valid documents: approved, approved with a step whose activity is not an
\* approved activity, approved for every agent, draft, deprecated
ValidStoreFiles ==
    {StoreFile("a/x", "a", "approved", <<"a1">>, "act1", <<>>, "in_sync", EmptyDict),
     StoreFile("a/x", "a", "approved", <<"a1">>, "act3", <<>>, "in_sync", EmptyDict),
     StoreFile("a/x", "a", "approved", <<WILDCARD_AGENT>>, "act1", <<>>, "missing", EmptyDict),
     StoreFile("b/y", "b", "draft", <<"a1">>, "act1", <<RegFCA>>, "in_sync", EmptyDict),
     StoreFile("b/y", "b", "deprecated", <<"a1">>, "act1", <<>>, "out_of_sync", EmptyDict)}

\* structurally invalid: no approved activities
InvalidStoreFile ==
    SkillFile("skill.yml",
              Document(Metadata("a/x", "a", [status |-> "approved"], <<"a1">>, GoodApproval),
                       <<>>, <<cpReview, cpVeto>>, <<>>),
              "in_sync", EmptyDict)

\* valid, with a regulation that has no word before its dash, next to a
\* resources/regulations.md
NoKeywordStoreFile ==
    StoreFile("b/y", "b", "approved", <<"a1">>, "act1", <<RegFCA, RegNoKeyword>>, "in_sync",
              [regulations_md |-> <<"#", " ", "f", "c">>])

StoreFiles ==
    ValidStoreFiles
    \cup {InvalidStoreFile, NoKeywordStoreFile}
    \cup {f \in MalformedFiles : f.yaml.parse = "error"}

RequestIds == SkillIds \cup {"n/z"}
RequestAgents == {None, "a1", "a2"}

Init ==
    /\ store \in SeqsUpTo(StoreFiles, MaxFiles)
    /\ cache = EmptyDict
    /\ loaded = FALSE
    /\ gdoc = EmptyDict
    /\ guard = NoGuard
    /\ vfile = EmptyDict
    /\ runner = NoRunner
    /\ loader = NoLoader
    /\ res = NoResult

\* registry.load(force_reload)
Load ==
    \E force_reload \in BOOLEAN :
        \E l \in {load(cache, loaded, store, force_reload)} :
            /\ cache' = l.cache
            /\ loaded' = l.loaded
            /\ res' = [op |-> "load", force_reload |-> force_reload, out |-> l.out,
                       kind |-> l.out.kind]
            /\ UNCHANGED <<runner, loader, store, gdoc, guard, vfile>>

\* registry.get_skill(skill_id, agent_id)
GetSkill ==
    \E l \in {load(cache, loaded, store, FALSE)} :
        \E skill_id \in RequestIds, agent_id \in RequestAgents :
            LET out == IF l.out.kind # "ok" THEN l.out
                       ELSE get_skill(l.cache, skill_id, agent_id)
            IN  /\ cache' = l.cache
                /\ loaded' = l.loaded
                /\ res' = [op |-> "get_skill", skill_id |-> skill_id, agent_id |-> agent_id,
                           out |-> out, kind |-> out.kind]
                /\ UNCHANGED <<runner, loader, store, gdoc, guard, vfile>>

\* registry.list_skills(business_area, status)
ListSkills ==
    \E l \in {load(cache, loaded, store, FALSE)} :
        \E business_area \in {None, "a"}, status \in {None, "approved", "draft"} :
            LET out == IF l.out.kind # "ok" THEN l.out
                       ELSE Return(list_skills(l.cache, business_area, status))
            IN  /\ cache' = listed(l.cache, business_area, status)
                /\ loaded' = l.loaded
                /\ res' = [op |-> "list_skills", business_area |-> business_area,
                           status |-> status, out |-> out, kind |-> out.kind]
                /\ UNCHANGED <<runner, loader, store, gdoc, guard, vfile>>

\* len(registry)
RegistryLen ==
    \E l \in {load(cache, loaded, store, FALSE)} :
        LET out == IF l.out.kind # "ok" THEN l.out
                   ELSE Return(Cardinality(DOMAIN l.cache))
        IN  /\ cache' = l.cache
            /\ loaded' = l.loaded
            /\ res' = [op |-> "len", out |-> out, kind |-> out.kind]
            /\ UNCHANGED <<runner, loader, store, gdoc, guard, vfile>>

\* skill_id in registry
RegistryContains ==
    \E l \in {load(cache, loaded, store, FALSE)} :
        \E skill_id \in RequestIds :
            LET out == IF l.out.kind # "ok" THEN l.out
                       ELSE Return(skill_id \in DOMAIN l.cache)
            IN  /\ cache' = l.cache
                /\ loaded' = l.loaded
                /\ res' = [op |-> "contains", skill_id |-> skill_id, out |-> out,
                           kind |-> out.kind]
                /\ UNCHANGED <<runner, loader, store, gdoc, guard, vfile>>

-----------------------------------------------------------------------------
(* cli/export.py *)

SysExit(code) == [kind |-> "SystemExit", code |-> code]

\* SkillRegistry(registry_path) followed by the load() of its first get_skill
OwnRegistry(files) == load(EmptyDict, FALSE, files, FALSE)

\* the export command on its own registry: get_skill without an agent id,
\* then the adapter chosen by --format
export(reg, skill_id, fmt) ==
    LET got == IF reg.out.kind # "ok" THEN reg.out ELSE get_skill(reg.cache, skill_id, None)
    IN  IF got.kind = "SkillNotFoundError" THEN SysExit(1)
        ELSE IF got.kind # "return" THEN got
        ELSE [kind |-> "exported",
              adapter |-> IF fmt = "nemo" THEN "NeMoGuardrailsAdapter" ELSE "GenericJsonAdapter",
              skill_data |-> got.value]

\* supv export SKILL_ID --format FMT
Export ==
    \E reg \in {OwnRegistry(store)} :
        \E skill_id \in RequestIds, fmt \in {"nemo", "json"} :
            /\ LET out == export(reg, skill_id, fmt)
               IN  res' = [op |-> "export", skill_id |-> skill_id, fmt |-> fmt,
                           out |-> out, kind |-> out.kind]
            /\ UNCHANGED <<runner, loader, store, cache, loaded, gdoc, guard, vfile>>

-----------------------------------------------------------------------------
(* cli/render.py *)

\* the end of the render command: the text echoed, or written to the SKILL.md
\* of the document's directory
write_or_echo(skill_data, content, stdout) ==
    IF content.kind # "return" THEN content
    ELSE IF stdout
    THEN [kind |-> "echoed", content |-> content.value, skill_data |-> skill_data]
    ELSE [kind |-> "written", content |-> content.value, skill_data |-> skill_data,
          skill_dir |-> skill_data._skill_dir]

\* the render command once get_skill has answered
render_found(got, stdout) ==
    IF got.kind = "SkillNotFoundError" THEN SysExit(1)
    ELSE IF got.kind # "return" THEN got
    ELSE write_or_echo(got.value, render_skill_md(got.value), stdout)

\* supv render SKILL_ID [--stdout] on its own registry
render(reg, skill_id, stdout) ==
    render_found(IF reg.out.kind # "ok" THEN reg.out
                 ELSE get_skill(reg.cache, skill_id, None),
                 stdout)

\* the skill.yml files a registry finds in the directory of a file
FilesBeside(file) == IF file.name = "skill.yml" THEN <<file>> ELSE <<>>

\* supv render on the registry that holds the validated file
RenderSkill ==
    \E skill_id \in {"a/x"}, stdout \in BOOLEAN :
        \E out \in {render(OwnRegistry(FilesBeside(vfile)), skill_id, stdout)} :
            /\ vfile' = IF out.kind = "written"
                        THEN [vfile EXCEPT !.skill_md = out.content]
                        ELSE vfile
            /\ res' = [op |-> "render", skill_id |-> skill_id, stdout |-> stdout,
                       out |-> out, kind |-> out.kind,
                       prev |-> IF res.op = "render" THEN res.out ELSE NoResult]
            /\ UNCHANGED <<runner, loader, store, cache, loaded, gdoc, guard>>

\* render_skill_md(registry.get_skill(skill_id)) on the registry in use: the
\* renderer reads the cached document it is handed and builds new text
RenderCached ==
    \E l \in {load(cache, loaded, store, FALSE)} :
        \E skill_id \in SkillIds :
            \E out \in {render([cache |-> l.cache, out |-> l.out], skill_id, TRUE)} :
                /\ cache' = l.cache
                /\ loaded' = l.loaded
                /\ res' = [op |-> "render", skill_id |-> skill_id, out |-> out,
                           kind |-> out.kind]
                /\ UNCHANGED <<runner, loader, store, gdoc, guard, vfile>>

ValidateNext == ValidateSkill \/ RenderSkill

SpecValidate == ValidateStart /\ [][ValidateNext]_vars

-----------------------------------------------------------------------------
(* The registry and the export command over a document store *)

Next ==
    Load \/ GetSkill \/ ListSkills \/ RegistryLen \/ RegistryContains \/ Export \/ RenderCached

Spec == Init /\ [][Next]_vars

-----------------------------------------------------------------------------
(* Claims about the registry and the export command, checked under Spec *)

FileValid(f) == f.yaml.parse = "ok" /\ iter_errors(f.yaml.data) = <<>>
ValidIds == {store[i].yaml.data.metadata.id : i \in {j \in 1..Len(store) : FileValid(store[j])}}
DeclaresId(f) ==
    /\ f.yaml.parse = "ok"
    /\ Has(f.yaml.data, "metadata")
    /\ Has(f.yaml.data.metadata, "id")
StatusOf(skill_data) == skill_data.metadata.status
OnAllowlist(skill_data, agent_id) ==
    \/ In(agent_id, skill_data.metadata.authorised_agents)
    \/ In(WILDCARD, skill_data.metadata.authorised_agents)
GateAllows(skill_data, agent_id) ==
    StatusOf(skill_data) = "approved" /\ OnAllowlist(skill_data, agent_id)
CheckKinds ==
    {"SkillNotFoundError", "SkillNotApprovedError", "AgentNotAuthorisedError", "return"}

\* C3: after any load of a store, the load has not raised, the id of a document
\* that is malformed or fails structural validation is not in the registry
\* (unless a valid document of the store declares the same id), and the id of
\* every structurally valid document of the store is in the registry.
C3_LoadSkipsInvalid ==
    res.op = "load" =>
        /\ res.kind = "ok"
        /\ \A i \in 1..Len(store) :
               FileValid(store[i]) => store[i].yaml.data.metadata.id \in DOMAIN cache
        /\ \A i \in 1..Len(store) :
               (~FileValid(store[i]) /\ DeclaresId(store[i])
                    /\ store[i].yaml.data.metadata.id \notin ValidIds)
                   => store[i].yaml.data.metadata.id \notin DOMAIN cache

\* C4: get_skill with an agent id, once the store is loaded, reports the first
\* check that fails in the order not-found (id absent from the cache),
\* not-approved (carrying the status), not-authorised (agent not listed and no
\* wildcard), and returns the cached document when none fails; it reports the
\* outcome of a check only when the store is loaded.
C4_ChecksInOrder ==
    (res.op = "get_skill" /\ res.agent_id # None) =>
        LET id == res.skill_id
            agent == res.agent_id
        IN  /\ loaded =>
                   res.out =
                       IF id \notin DOMAIN cache THEN SkillNotFoundError
                       ELSE IF StatusOf(cache[id]) # "approved"
                       THEN SkillNotApprovedError(id, StatusOf(cache[id]))
                       ELSE IF ~OnAllowlist(cache[id], agent)
                       THEN AgentNotAuthorisedError(agent, id)
                       ELSE Return(cache[id])
            /\ ~loaded => res.kind \notin CheckKinds

\* not-approved is reported for a cached document whose allowlist would also
\* have refused the agent
C4_Witness ==
    /\ res.op = "get_skill"
    /\ res.agent_id # None
    /\ res.kind = "SkillNotApprovedError"
    /\ res.skill_id \in DOMAIN cache
    /\ ~OnAllowlist(cache[res.skill_id], res.agent_id)

C6_ExportOnlyPermitted ==
    (res.op = "export" /\ res.kind = "exported") =>
        /\ res.skill_id \in DOMAIN OwnRegistry(store).cache
        /\ StatusOf(res.out.skill_data) = "approved"

\* C7: in every document get_skill returns to an agent, the activity of each
\* workflow step is the id of one of its approved activities.
C7_ServedConsistent ==
    (res.op = "get_skill" /\ res.agent_id # None /\ res.kind = "return") =>
        LET d == res.out.value
        IN  \A i \in 1..Len(Steps(d)) :
                \E j \in 1..Len(d.approved_activities) :
                    Steps(d)[i].activity = d.approved_activities[j].id

-----------------------------------------------------------------------------
(* Claims about control points, checked under SpecValidate *)

ControlPointsOf(data) == Get(data, "control_points", <<>>)

\* the conditionally required key a control point lacks, if any
LacksRequired(cp) ==
    {k \in {"escalation_contact", "trigger", "who_reviews"} :
        /\ ~Has(cp, k)
        /\ \/ k = "escalation_contact" /\ Get(cp, "classification", None) = "vetoed"
           \/ k = "trigger" /\ Get(cp, "activation", None) = "conditional"
           \/ k = "who_reviews"
                /\ Get(cp, "classification", None) \in {"review", "needs_approval", "notify"}}

\* C11: a document with a control point that is 'vetoed' without
\* escalation_contact, 'conditional' without trigger, or review /
\* needs_approval / notify without who_reviews fails validation with
\* ValidationError in non-strict mode too, and the errors name the control
\* point's path and the missing key.
C11_ConditionalFieldsRequired ==
    (Validated /\ vfile.yaml.parse = "ok") =>
        \A i \in 1..Len(ControlPointsOf(ParsedData)) :
            \A k \in LacksRequired(ControlPointsOf(ParsedData)[i]) :
                /\ res.kind = "ValidationError"
                /\ \E e \in 1..Len(res.out.errors) :
                       /\ res.out.errors[e].tag = <<"control_points", Idx(i - 1)>>
                       /\ res.out.errors[e].message = <<"required", k>>

\* a non-strict validation of a document whose only structural violation is a
\* vetoed control point without escalation contact
C11_Witness ==
    /\ Validated
    /\ ~res.strict
    /\ vfile.yaml.parse = "ok"
    /\ Len(iter_errors(ParsedData)) = 1
    /\ \E i \in 1..Len(ControlPointsOf(ParsedData)) :
           LacksRequired(ControlPointsOf(ParsedData)[i]) = {"escalation_contact"}
    /\ res.kind = "ValidationError"

\* the ids the workflow steps name as their control_point
ReferencedControlPoints ==
    {Steps(ParsedData)[i].control_point :
        i \in {j \in 1..Len(Steps(ParsedData)) : Has(Steps(ParsedData)[j], "control_point")}}

IsUnreferencedWarning(w) == Has(w, "kind") /\ w.kind = "control_point_unreferenced"

\* one warning per step-activation control point that no step references, and
\* none for any other control point
UnreferencedWarned(ws) ==
    LET cps == ControlPointsOf(ParsedData)
    IN  \A id \in {cps[i].id : i \in 1..Len(cps)} :
            Cardinality({w \in 1..Len(ws) : IsUnreferencedWarning(ws[w]) /\ ws[w].cp = id})
                = IF id \in ReferencedControlPoints THEN 0
                  ELSE Cardinality({i \in 1..Len(cps) :
                                       cps[i].id = id /\ cps[i].activation = "step"})

\* C12: non-strict validation of a structurally valid document returns its
\* warnings and never raises; they hold exactly one warning naming each
\* step-activation control point that no workflow step references, and none
\* for a step-activation control point some step references.
C12_UnreferencedControlPointWarned ==
    (Validated /\ StructurallyValid /\ ~res.strict) =>
        /\ res.kind = "return"
        /\ UnreferencedWarned(res.out.value)

\* the same, for the validations that return
C12_WarnedWhenReturned ==
    (Validated /\ StructurallyValid /\ res.kind = "return") =>
        UnreferencedWarned(res.out.value)

-----------------------------------------------------------------------------
(* Claims about the renderer, checked under SpecValidate *)

Rendered == res.op = "render" /\ res.kind \in {"echoed", "written"}
RenderedBefore == Rendered /\ res.prev.kind \in {"echoed", "written"}

IsFreshnessWarning(w) == w.kind \in {"skill_md_not_found", "skill_md_stale"}

\* the stored SKILL.md is the text the render command writes for the document
StoredExact ==
    vfile.skill_md # None /\ vfile.skill_md = render_skill_md(ParsedData).value

\* there is no SKILL.md, or it differs from that text by more than the blank
\* space around it
StoredDiffers ==
    \/ vfile.skill_md = None
    \/ StrStrip(vfile.skill_md) # StrStrip(render_skill_md(ParsedData).value)

\* the document of the file is in the cache of a registry that loads it
LoadsIntoRegistry ==
    \E reg \in {OwnRegistry(FilesBeside(vfile))} :
        reg.out.kind = "ok" /\ ParsedData.metadata.id \in DOMAIN reg.cache

\* C14: render/freshness round trip for a structurally valid skill.yml.  When
\* the stored SKILL.md is exactly what the render command writes, a non-strict
\* validation emits no freshness warning; when SKILL.md is missing or differs
\* by more than surrounding blank space, the validation succeeds with exactly
\* one freshness warning and the document still loads into the registry.
C14_RenderFreshnessRoundTrip ==
    (Validated /\ StructurallyValid /\ vfile.name = "skill.yml" /\ ~res.strict) =>
        /\ (res.rendered \/ StoredExact) /\ res.kind = "return"
            => Count(res.out.value, IsFreshnessWarning) = 0
        /\ StoredDiffers
            => /\ res.kind = "return"
               /\ Count(res.out.value, IsFreshnessWarning) = 1
               /\ LoadsIntoRegistry

\* the same, for the validations that return
C14_RoundTripWhenReturned ==
    (Validated /\ StructurallyValid /\ vfile.name = "skill.yml" /\ res.kind = "return") =>
        /\ (res.rendered \/ StoredExact)
            => Count(res.out.value, IsFreshnessWarning) = 0
        /\ StoredDiffers
            => /\ Count(res.out.value, IsFreshnessWarning) = 1
               /\ ~res.strict => LoadsIntoRegistry
        /\ ~StoredExact /\ ~StoredDiffers
            => Count(res.out.value, IsFreshnessWarning) = 0

\* a validation that raises instead of returning its warnings
C14_RaisedOnlyIndexError ==
    (Validated /\ StructurallyValid /\ ~res.strict) => res.kind \in {"return", "IndexError"}

-----------------------------------------------------------------------------
(* examples/loan_application_activity_dispatch.py: WorkflowRunner, and the  *)
(* validate-activity script a rendered procedure calls before each step     *)

MaxRuns == 2        \* most calls of execute() on one runner

VetoTriggeredError(veto_id, action, contact) ==
    [kind |-> "VetoTriggeredError", veto_id |-> veto_id, action |-> action,
     escalation_contact |-> contact]

CheckpointBlockedError(checkpoint_id, who_reviews) ==
    [kind |-> "CheckpointBlockedError", checkpoint_id |-> checkpoint_id,
     who_reviews |-> who_reviews]

\* {d["id"]: d for d in defs}: of two definitions with one id the later wins
IndexById(defs) ==
    [id \in {defs[i].id : i \in 1..Len(defs)} |-> defs[LastWithId(defs, id)]]

\* WorkflowRunner.__init__.  The activity functions, veto evaluators and
\* checkpoint handlers are known by the names they are registered under; at
\* is the index of the step execute() is at, run the number of the call of
\* execute(), called the activities whose function that call has called and
\* logged the length of _audit_log when it began; trace is what that call has
\* done so far, in the order it did it.
WorkflowRunner(skill_data) ==
    [status |-> "ready",
     _skill_id |-> skill_data.metadata.id,
     _approved |-> {skill_data.scope.approved_activities[i] :
                        i \in 1..Len(skill_data.scope.approved_activities)},
     _steps |-> skill_data.workflow.steps,
     _veto_index |-> IndexById(skill_data.hard_veto_triggers),
     _checkpoint_index |-> IndexById(skill_data.oversight_checkpoints.workflow_checkpoints),
     _activity_registry |-> {},
     _veto_evaluators |-> {},
     _checkpoint_handlers |-> {},
     _results |-> EmptyDict,
     _audit_log |-> <<>>,
     at |-> 0, run |-> 0, called |-> <<>>, logged |-> 0, trace |-> <<>>]

\* WorkflowRunner.register
register(r, activity) ==
    IF activity \notin r._approved THEN [runner |-> r, out |-> ValueError]
    ELSE [runner |-> [r EXCEPT !._activity_registry = @ \cup {activity}], out |-> Ok]

\* WorkflowRunner.register_veto
register_veto(r, veto_id) == [r EXCEPT !._veto_evaluators = @ \cup {veto_id}]

\* WorkflowRunner.register_checkpoint
register_checkpoint(r, checkpoint_id) ==
    [r EXCEPT !._checkpoint_handlers = @ \cup {checkpoint_id}]

\* the entry of execute(): a new run, at the first step
begin_execute(r) ==
    [r EXCEPT !.status = IF r._steps = <<>> THEN "returned" ELSE "running",
              !.at = 1, !.run = @ + 1, !.called = <<>>, !.logged = Len(r._audit_log),
              !.trace = <<>>]

\* the run has done this at the step it is at; ok tells that it may go on
Traced(r, ev, ok) == [r EXCEPT !.trace = Append(@, [ev |-> ev, at |-> r.at, ok |-> ok])]

\* the run ends by raising
raised(r, error) == [runner |-> [r EXCEPT !.status = error.kind], out |-> error]

\* the loop of execute() goes on to the next step, or returns self._results
next_step(r) ==
    IF r.at = Len(r._steps)
    THEN [runner |-> [r EXCEPT !.status = "returned"], out |-> Return(r._results)]
    ELSE [runner |-> [r EXCEPT !.at = @ + 1], out |-> Ok]

\* a checkpoint that blocks the run when no handler is registered for it
gate_checkpoint_BlocksUnhandled(r, step, passes) ==
    IF ~Truthy(Get(step, "checkpoint", None)) THEN next_step(r)
    ELSE IF step.checkpoint \notin DOMAIN r._checkpoint_index THEN raised(r, KeyError)
    ELSE IF step.checkpoint \in r._checkpoint_handlers /\ passes
    THEN next_step(Traced(r, "checkpoint", TRUE))
    ELSE raised(Traced(r, "checkpoint", FALSE),
                CheckpointBlockedError(step.checkpoint,
                                       Get(r._checkpoint_index[step.checkpoint],
                                           "who_reviews", "")))

\* the checkpoint of a step: passes is what the handler returns
gate_checkpoint(r, step, passes) ==
    IF ~Truthy(Get(step, "checkpoint", None)) THEN next_step(r)
    ELSE IF step.checkpoint \notin DOMAIN r._checkpoint_index THEN raised(r, KeyError)
    ELSE IF step.checkpoint \notin r._checkpoint_handlers THEN next_step(r)
    ELSE IF passes THEN next_step(Traced(r, "checkpoint", TRUE))
    ELSE IF ~Has(r._checkpoint_index[step.checkpoint], "who_reviews")
    THEN raised(Traced(r, "checkpoint", FALSE), KeyError)
    ELSE raised(Traced(r, "checkpoint", FALSE),
                CheckpointBlockedError(step.checkpoint,
                                       r._checkpoint_index[step.checkpoint].who_reviews))

\* a veto that reports itself and lets the run go on to the control point
evaluate_veto_GoesOn(r, step, fires, passes) ==
    IF /\ Truthy(Get(step, "veto_trigger", None))
       /\ step.veto_trigger \in DOMAIN r._veto_index
       /\ step.veto_trigger \in r._veto_evaluators /\ fires
       /\ Has(r._veto_index[step.veto_trigger], "action")
    THEN [runner |-> next_step(r).runner,
          out |-> VetoTriggeredError(step.veto_trigger, r._veto_index[step.veto_trigger].action,
                                     Get(r._veto_index[step.veto_trigger],
                                         "escalation_contact", ""))]
    ELSE gate_checkpoint(r, step, passes)

\* the veto trigger of a step: fires is what the evaluator returns
evaluate_veto(r, step, fires, passes) ==
    IF ~Truthy(Get(step, "veto_trigger", None)) THEN gate_checkpoint(r, step, passes)
    ELSE IF step.veto_trigger \notin DOMAIN r._veto_index THEN raised(r, KeyError)
    ELSE IF step.veto_trigger \notin r._veto_evaluators THEN gate_checkpoint(r, step, passes)
    ELSE IF ~fires THEN gate_checkpoint(Traced(r, "veto", TRUE), step, passes)
    ELSE IF ~Has(r._veto_index[step.veto_trigger], "action")
    THEN raised(Traced(r, "veto", FALSE), KeyError)
    ELSE raised(Traced(r, "veto", FALSE),
                VetoTriggeredError(step.veto_trigger,
                                   r._veto_index[step.veto_trigger].action,
                                   Get(r._veto_index[step.veto_trigger],
                                       "escalation_contact", "")))

\* the activity function of a step is called, its result kept and logged
call_activity(r, step) ==
    [r EXCEPT !._results = Put(@, step.id, "result of " \o step.activity),
              !._audit_log = Append(@, [skill_id |-> r._skill_id, step_id |-> step.id,
                                        activity |-> step.activity, status |-> "completed"]),
              !.called = Append(@, step.activity),
              !.trace = @ \o <<[ev |-> "activity", at |-> r.at, ok |-> TRUE],
                               [ev |-> "recorded", at |-> r.at, ok |-> TRUE]>>]

\* a pass of the loop that asks the handler of the checkpoint before it calls
\* the activity
execute_step_GateFirst(r, step, fires, passes) ==
    IF ~Has(step, "id") \/ ~Has(step, "activity") THEN raised(r, KeyError)
    ELSE IF step.activity \notin r._activity_registry THEN raised(r, KeyError)
    ELSE IF /\ Truthy(Get(step, "checkpoint", None))
            /\ step.checkpoint \in r._checkpoint_handlers
            /\ step.checkpoint \in DOMAIN r._checkpoint_index
    THEN IF passes
         THEN evaluate_veto(call_activity(Traced(r, "checkpoint", TRUE), step), step, fires,
                            passes)
         ELSE raised(Traced(r, "checkpoint", FALSE),
                     CheckpointBlockedError(step.checkpoint,
                                            Get(r._checkpoint_index[step.checkpoint],
                                                "who_reviews", "")))
    ELSE evaluate_veto(call_activity(r, step), step, fires, passes)

\* one pass of the loop of execute(), for the step the run is at
execute_step(r, step, fires, passes) ==
    IF ~Has(step, "id") \/ ~Has(step, "activity") THEN raised(r, KeyError)
    ELSE IF step.activity \notin r._activity_registry THEN raised(r, KeyError)
    ELSE evaluate_veto(call_activity(r, step), step, fires, passes)

\* validate_activity.py: main() on a skill.yml and a step id
validate_activity(file, step) ==
    IF file.yaml.parse = "error"
    THEN [kind |-> "exit", code |-> 1, allowed |-> FALSE, step |-> step]
    ELSE IF \E i \in 1..Len(Steps(file.yaml.data)) : ~Has(Steps(file.yaml.data)[i], "id")
    THEN KeyError
    ELSE IF \E i \in 1..Len(Steps(file.yaml.data)) : Steps(file.yaml.data)[i].id = step
    THEN [kind |-> "exit", code |-> 0, allowed |-> TRUE, step |-> step]
    ELSE [kind |-> "exit", code |-> 1, allowed |-> FALSE, step |-> step]

-----------------------------------------------------------------------------
(* A runner over the document of a skill.yml *)

RunnerVetoes ==
    {<<[id |-> "v1", action |-> "halt", escalation_contact |-> "ops"]>>,
     <<[id |-> "v1", action |-> "halt"]>>}

RunnerWorkflows ==
    {<<[id |-> "s1", activity |-> "act1", veto_trigger |-> "v1"],
       [id |-> "s2", activity |-> "act2", checkpoint |-> "c1"],
       [id |-> "s3", activity |-> "act1"]>>,
     <<[id |-> "s1", activity |-> "act1", veto_trigger |-> "v1", checkpoint |-> "c1"],
       [id |-> "s2", activity |-> "act2"]>>,
     <<[id |-> "s1", activity |-> "act1", checkpoint |-> "c1"],
       [id |-> "s2", activity |-> "act3"]>>,
     <<[activity |-> "act1"]>>}

RunnerDocument(steps, vetoes) ==
    [metadata |-> [id |-> "a/x"],
     scope |-> [approved_activities |-> <<"act1", "act2">>],
     workflow |-> [steps |-> steps],
     hard_veto_triggers |-> vetoes,
     oversight_checkpoints |->
        [workflow_checkpoints |-> <<[id |-> "c1", who_reviews |-> "lead"]>>]]

RunnerFiles ==
    {[name |-> "skill.yml", yaml |-> [parse |-> "ok", data |-> RunnerDocument(steps, vetoes)]] :
        steps \in RunnerWorkflows, vetoes \in RunnerVetoes}

RunnerActivities == {"act1", "act2", "act3"}
RunnerStepIds == {"s1", "s2", "s4"}

RunnerStart ==
    /\ res = NoResult
    /\ store = <<>>
    /\ cache = EmptyDict
    /\ loaded = FALSE
    /\ gdoc = EmptyDict
    /\ guard = NoGuard
    /\ loader = NoLoader
    /\ vfile \in RunnerFiles
    /\ runner = WorkflowRunner(vfile.yaml.data)

Idle == runner.status # "running"

\* runner.register(activity, fn)
Register ==
    /\ Idle
    /\ \E activity \in RunnerActivities :
        \E done \in {register(runner, activity)} :
            /\ runner' = done.runner
            /\ res' = [op |-> "register", activity |-> activity, out |-> done.out,
                       kind |-> done.out.kind]
    /\ UNCHANGED <<store, cache, loaded, gdoc, guard, vfile, loader>>

\* runner.register_veto(veto_id, fn)
RegisterVeto ==
    /\ Idle
    /\ runner' = register_veto(runner, "v1")
    /\ res' = [op |-> "register_veto", kind |-> "ok"]
    /\ UNCHANGED <<store, cache, loaded, gdoc, guard, vfile, loader>>

\* runner.register_checkpoint(checkpoint_id, fn)
RegisterCheckpoint ==
    /\ Idle
    /\ runner' = register_checkpoint(runner, "c1")
    /\ res' = [op |-> "register_checkpoint", kind |-> "ok"]
    /\ UNCHANGED <<store, cache, loaded, gdoc, guard, vfile, loader>>

\* runner.execute() is called
Execute ==
    /\ Idle
    /\ runner.run < MaxRuns
    /\ runner' = begin_execute(runner)
    /\ res' = [op |-> "execute", kind |-> "ok"]
    /\ UNCHANGED <<store, cache, loaded, gdoc, guard, vfile, loader>>

\* execute() runs the step it is at
ExecuteStep ==
    /\ runner.status = "running"
    /\ \E fires \in BOOLEAN, passes \in BOOLEAN :
        \E done \in {execute_step(runner, runner._steps[runner.at], fires, passes)} :
            /\ runner' = done.runner
            /\ res' = [op |-> "execute_step", at |-> runner.at, fires |-> fires,
                       passes |-> passes, out |-> done.out, kind |-> done.out.kind]
    /\ UNCHANGED <<store, cache, loaded, gdoc, guard, vfile, loader>>

\* python validate_activity.py --skill skill.yml --step STEP
ValidateActivity ==
    /\ Idle
    /\ \E step \in RunnerStepIds :
        \E out \in {validate_activity(vfile, step)} :
            res' = [op |-> "validate_activity", step |-> step, out |-> out, kind |-> out.kind]
    /\ UNCHANGED <<store, cache, loaded, gdoc, guard, vfile, loader, runner>>

RunnerNext ==
    Register \/ RegisterVeto \/ RegisterCheckpoint \/ Execute \/ ExecuteStep \/ ValidateActivity

SpecRunner == RunnerStart /\ [][RunnerNext]_vars

-----------------------------------------------------------------------------
(* core/registry.py: load(force_reload=True) in one thread, step by step,   *)
(* while another thread reads the same registry                             *)

ReloadFiles ==
    {StoreFile("a/x", "a", "approved", <<"a1">>, "act1", <<>>, "missing", EmptyDict),
     StoreFile("a/x", "a", "approved", <<WILDCARD_AGENT>>, "act1", <<>>, "missing", EmptyDict),
     StoreFile("b/y", "b", "draft", <<"a1">>, "act1", <<>>, "missing", EmptyDict),
     InvalidStoreFile}

\* the cache a whole load of these files builds
CompleteCache(files) == load(EmptyDict, FALSE, files, FALSE).cache

\* loader.pc is where the reloading thread is in load, loader.path the file
\* its loop is at and loader.before the cache as it was when it entered;
\* loader.reader is the get_skill call of the reading thread that has found
\* its id in the cache and not yet fetched the document
NoReader == [skill_id |-> None, agent_id |-> None]

\* the registry has been loaded from the directory as it was; the directory
\* has changed since
ReloadStart ==
    /\ res = NoResult
    /\ gdoc = EmptyDict
    /\ guard = NoGuard
    /\ vfile = EmptyDict
    /\ runner = NoRunner
    /\ store \in SeqsUpTo(ReloadFiles, MaxFiles)
    /\ \E was \in SeqsUpTo(ReloadFiles, MaxFiles) : cache = CompleteCache(was)
    /\ loaded = TRUE
    /\ loader = [pc |-> "idle", path |-> 0, before |-> cache, reader |-> NoReader]

\* load(force_reload=True) up to and with self._cache.clear()
BeginReload ==
    /\ loader.pc = "idle"
    /\ cache' = EmptyDict
    /\ loader' = [loader EXCEPT !.pc = "filling", !.path = 1, !.before = cache]
    /\ res' = [op |-> "load", force_reload |-> TRUE, out |-> Ok, kind |-> "ok"]
    /\ UNCHANGED <<store, loaded, gdoc, guard, vfile, runner>>

\* one pass of the loop of load: self._load_skill_file(path)
LoadNextFile ==
    /\ loader.pc = "filling"
    /\ loader.path <= Len(store)
    /\ \E l \in {load_skill_file(cache, store, loader.path)} :
        /\ cache' = l.cache
        /\ loader' = [loader EXCEPT !.path = @ + 1,
                                    !.pc = IF l.out.kind = "ok" THEN "filling" ELSE "idle"]
        /\ res' = [op |-> "load_skill_file", path |-> loader.path, out |-> l.out,
                   kind |-> l.out.kind]
    /\ UNCHANGED <<store, loaded, gdoc, guard, vfile, runner>>

\* the end of load: self._loaded = True
EndReload ==
    /\ loader.pc = "filling"
    /\ loader.path > Len(store)
    /\ loaded' = TRUE
    /\ loader' = [loader EXCEPT !.pc = "idle"]
    /\ res' = [op |-> "loaded", out |-> Ok, kind |-> "ok"]
    /\ UNCHANGED <<store, cache, gdoc, guard, vfile, runner>>

\* what a reader notes of the registry as it reads
Seen == [seen |-> cache, before |-> loader.before, reloading |-> loader.pc = "filling"]

\* get_skill in the reading thread, up to the test skill_id not in self._cache;
\* its self.load() returns at once, _loaded being true
ReadGetSkill ==
    /\ loaded
    /\ loader.reader = NoReader
    /\ \E skill_id \in SkillIds, agent_id \in {None, "a1"} :
        IF skill_id \notin DOMAIN cache
        THEN /\ res' = Merge([op |-> "get_skill", skill_id |-> skill_id, agent_id |-> agent_id,
                              out |-> SkillNotFoundError, kind |-> "SkillNotFoundError"], Seen)
             /\ UNCHANGED loader
        ELSE /\ loader' = [loader EXCEPT !.reader = [skill_id |-> skill_id,
                                                     agent_id |-> agent_id]]
             /\ res' = Merge([op |-> "found", skill_id |-> skill_id, agent_id |-> agent_id,
                              out |-> Ok, kind |-> "ok"], Seen)
    /\ UNCHANGED <<store, cache, loaded, gdoc, guard, vfile, runner>>

\* the rest of get_skill: self._cache[skill_id], the access check, the return
ReadFetch ==
    /\ loader.reader # NoReader
    /\ \E out \in {IF loader.reader.skill_id \notin DOMAIN cache THEN KeyError
                   ELSE get_skill(cache, loader.reader.skill_id, loader.reader.agent_id)} :
        res' = Merge([op |-> "get_skill", skill_id |-> loader.reader.skill_id,
                      agent_id |-> loader.reader.agent_id, out |-> out, kind |-> out.kind],
                     Seen)
    /\ loader' = [loader EXCEPT !.reader = NoReader]
    /\ UNCHANGED <<store, cache, loaded, gdoc, guard, vfile, runner>>

\* skill_id in registry, in the reading thread
ReadContains ==
    /\ loaded
    /\ \E skill_id \in SkillIds :
        res' = Merge([op |-> "contains", skill_id |-> skill_id,
                      out |-> Return(skill_id \in DOMAIN cache), kind |-> "return"], Seen)
    /\ UNCHANGED <<store, cache, loaded, gdoc, guard, vfile, runner, loader>>

\* len(registry), in the reading thread
ReadLen ==
    /\ loaded
    /\ res' = Merge([op |-> "len", out |-> Return(Cardinality(DOMAIN cache)),
                     kind |-> "return"], Seen)
    /\ UNCHANGED <<store, cache, loaded, gdoc, guard, vfile, runner, loader>>

\* registry.list_skills(), in the reading thread
ReadListSkills ==
    /\ loaded
    /\ res' = Merge([op |-> "list_skills", out |-> Return(list_skills(cache, None, None)),
                     kind |-> "return"], Seen)
    /\ UNCHANGED <<store, cache, loaded, gdoc, guard, vfile, runner, loader>>

ReloadNext ==
    \/ BeginReload \/ LoadNextFile \/ EndReload
    \/ ReadGetSkill \/ ReadFetch \/ ReadContains \/ ReadLen \/ ReadListSkills

SpecReload == ReloadStart /\ [][ReloadNext]_vars

-----------------------------------------------------------------------------
(* core/registry.py: one registry kept while the files of its directory     *)
(* are added, removed and edited                                            *)

ChangingFiles ==
    {StoreFile("a/x", "a", "approved", <<"a1">>, "act1", <<>>, "missing", EmptyDict),
     StoreFile("a/x", "a", "draft", <<"a1">>, "act1", <<>>, "missing", EmptyDict),
     StoreFile("b/y", "b", "approved", <<WILDCARD_AGENT>>, "act1", <<>>, "missing", EmptyDict),
     InvalidStoreFile,
     NoKeywordStoreFile}

StoreStart ==
    /\ res = NoResult
    /\ store \in SeqsUpTo(ChangingFiles, MaxFiles)
    /\ cache = EmptyDict
    /\ loaded = FALSE
    /\ gdoc = EmptyDict
    /\ guard = NoGuard
    /\ vfile = EmptyDict
    /\ runner = NoRunner
    /\ loader = NoLoader

\* a skill.yml is added at the end of the sorted paths, the last one is
\* removed, or one is edited
ChangeStore ==
    /\ \/ /\ Len(store) < MaxFiles
          /\ \E f \in ChangingFiles : store' = Append(store, f)
       \/ /\ store # <<>>
          /\ store' = SubSeq(store, 1, Len(store) - 1)
       \/ \E i \in 1..Len(store) :
              \E f \in ChangingFiles \ {store[i]} : store' = [store EXCEPT ![i] = f]
    /\ res' = [op |-> "change_store", kind |-> "ok"]
    /\ UNCHANGED <<cache, loaded, gdoc, guard, vfile, runner, loader>>

StoreNext ==
    Load \/ GetSkill \/ ListSkills \/ RegistryLen \/ RegistryContains \/ ChangeStore

SpecStore == StoreStart /\ [][StoreNext]_vars

\* A store of up to MaxSameId files, several of them declaring one id
MaxSameId == 3

SameIdFiles ==
    {StoreFile("a/x", "a", "approved", <<"a1">>, "act1", <<>>, "missing", EmptyDict),
     StoreFile("a/x", "a", "draft", <<"a1">>, "act1", <<>>, "missing", EmptyDict),
     NoKeywordStoreFile}

SameIdStart ==
    /\ res = NoResult
    /\ store \in SeqsUpTo(SameIdFiles, MaxSameId)
    /\ cache = EmptyDict
    /\ loaded = FALSE
    /\ gdoc = EmptyDict
    /\ guard = NoGuard
    /\ vfile = EmptyDict
    /\ runner = NoRunner
    /\ loader = NoLoader

SameIdNext == Load \/ GetSkill \/ RegistryLen \/ RegistryContains

SpecSameId == SameIdStart /\ [][SameIdNext]_vars

-----------------------------------------------------------------------------
(* core/renderer.py applied to the document of a skill.yml, and the text it *)
(* writes read back line by line                                            *)

\* the places of the line breaks of a text, ascending
IsBreakOf(s) == [i \in 1..Len(s) |-> Ch(s, i) = "\n"]

BreaksOf(s, isBreak) == SelectSeq([i \in 1..Len(s) |-> i], LAMBDA i : isBreak[i])

\* the text between each break and the next
Between(s, breaks) ==
    [k \in 1..(Len(breaks) + 1) |->
        SubSeq(s, IF k = 1 THEN 1 ELSE breaks[k - 1] + 1,
                  IF k > Len(breaks) THEN Len(s) ELSE breaks[k] - 1)]

\* text.split("\n")
LinesOf(s) == Between(s, BreaksOf(s, IsBreakOf(s)))

StartsWith(s, prefix) == Len(s) >= Len(prefix) /\ SubSeq(s, 1, Len(prefix)) = prefix

\* a control point the schema accepts, of a classification and an activation
RenderCP(id, classification, activation) ==
    Merge([id |-> id, description |-> "guards " \o id, classification |-> classification,
           activation |-> activation],
          Merge(IF activation = "conditional" THEN [trigger |-> "errors exceeded"]
                ELSE EmptyDict,
                Merge(IF classification \in NeedsReviewer
                      THEN [who_reviews |-> "reviewer"] ELSE EmptyDict,
                      IF classification = "vetoed"
                      THEN [escalation_contact |-> "ops"] ELSE EmptyDict)))

RenderCPs ==
    {RenderCP("auto-step", "auto", "step"),
     RenderCP("auto-cond", "auto", "conditional"),
     RenderCP("notify-cond", "notify", "conditional"),
     RenderCP("review-step", "review", "step"),
     RenderCP("approval-cond", "needs_approval", "conditional"),
     RenderCP("veto-step", "vetoed", "step"),
     RenderCP("veto-cond", "vetoed", "conditional")}

RenderSteps ==
    {[activity |-> "act1"],
     [activity |-> "act2", id |-> "s2", control_point |-> "review-step"],
     [activity |-> "act1", id |-> "s1", control_point |-> "undeclared"],
     [activity |-> "act2", id |-> "s3", control_point |-> "veto-cond"]}

RenderDocumentOf(acts, actions, cps, steps) ==
    Merge([constraints |-> [unacceptable_actions |-> actions]],
          Document(Metadata("a/x", "a", [status |-> "approved"], <<"a1">>, GoodApproval),
                   acts, cps, steps))

RenderDocument(cps, steps) ==
    RenderDocumentOf(<<Activity("act2"), Activity("act1")>>, <<"pay out", "delete records">>,
                     cps, steps)

\* a document with something in every section, and more than one control
\* point in each of the three sections of control points
FullDocument(acts, actions) ==
    RenderDocumentOf(acts, actions,
        <<RenderCP("veto-step", "vetoed", "step"),
          RenderCP("review-step", "review", "step"),
          RenderCP("notify-cond", "notify", "conditional"),
          RenderCP("veto-cond", "vetoed", "conditional"),
          RenderCP("approval-cond", "needs_approval", "conditional"),
          RenderCP("approval-step", "needs_approval", "step")>>,
        <<[activity |-> "act2", id |-> "s2", control_point |-> "review-step"],
          [activity |-> "act1", id |-> "s1"]>>)

RenderActivities ==
    {<<Activity("act2"), Activity("act1")>>, <<Activity("act1"), Activity("act2")>>}

RenderActions == {<<>>, <<"pay out", "delete records">>, <<"delete records", "pay out">>}

RenderFiles ==
    {SkillFile("skill.yml", RenderDocument(cps, <<[activity |-> "act1"]>>), "missing",
               EmptyDict) : cps \in SeqsUpTo(RenderCPs, MaxCPs) \ {<<>>}}
    \cup
    {SkillFile("skill.yml",
               RenderDocument(<<RenderCP("review-step", "review", "step"),
                                RenderCP("veto-cond", "vetoed", "conditional")>>, steps),
               "in_sync", EmptyDict) : steps \in SeqsUpTo(RenderSteps, MaxSteps)}
    \cup
    {SkillFile("skill.yml", FullDocument(acts, actions), "missing", EmptyDict) :
        acts \in RenderActivities, actions \in RenderActions}

RenderStart ==
    /\ res = NoResult
    /\ store = <<>>
    /\ cache = EmptyDict
    /\ loaded = FALSE
    /\ gdoc = EmptyDict
    /\ guard = NoGuard
    /\ runner = NoRunner
    /\ loader = NoLoader
    /\ vfile \in RenderFiles

\* the document as the registry hands it to the renderer
LoadedDocument == Merge([_skill_dir |-> 1], vfile.yaml.data)

\* render_skill_md(skill_data), and its text line by line
RenderMd ==
    /\ \E out \in {render_skill_md(LoadedDocument)} :
        res' = [op |-> "render_md", out |-> out, kind |-> out.kind,
                lines |-> IF out.kind = "return" THEN LinesOf(out.value) ELSE <<>>]
    /\ UNCHANGED <<store, cache, loaded, gdoc, guard, vfile, runner, loader>>

\* the step ids of the validation commands of a rendered text, in order
IsStepArgument(line) == StartsWith(line, "  --step ")

StepArguments(lines) ==
    [k \in 1..Len(SelectSeq(lines, IsStepArgument)) |->
        SubSeq(SelectSeq(lines, IsStepArgument)[k], 10,
               Len(SelectSeq(lines, IsStepArgument)[k]))]

\* the agent runs the validation command the rendered text gives for a step
RunValidateCommand ==
    /\ \E out \in {render_skill_md(LoadedDocument)} :
        /\ out.kind = "return"
        /\ \E args \in {StepArguments(LinesOf(out.value))} :
            \E i \in 1..Len(args) :
                \E ran \in {validate_activity(vfile, args[i])} :
                    res' = [op |-> "validate_command", index |-> i, step |-> args[i],
                            out |-> ran, kind |-> ran.kind]
    /\ UNCHANGED <<store, cache, loaded, gdoc, guard, vfile, runner, loader>>

RenderNext == RenderMd \/ RunValidateCommand \/ ValidateSkill

SpecRender == RenderStart /\ [][RenderNext]_vars

(***************************************************************************)
(* _frontmatter over long descriptions and long suffixes: documents whose  *)
(* description runs to MaxHundreds words of 99 characters and whose list   *)
(* of authorised agents runs to MaxHundreds names of 98 characters         *)
(***************************************************************************)

MaxHundreds == 12

LongWord == "wwwwwwwwwwwwwwwwwwwwwwwwwwwwwwwwwwwwwwwwwwwwwwwwwwwwwwwwwwwwwwwwwwwwwwwwwwwwwwwwwwwwwwwwwwwwwwwwwww"
LongAgent == "agent-aaaaaaaaaaaaaaaaaaaaaaaaaaaaaaaaaaaaaaaaaaaaaaaaaaaaaaaaaaaaaaaaaaaaaaaaaaaaaaaaaaaaaaaaaaaa"

DescribeNames == {"Loan", "Loans", "Loan approvals"}

\* n words with line breaks and blanks between them, as a YAML block has
LongDescription(n) == StrJoin(" \n ", [i \in 1..n |-> LongWord])

DescribeDocument(name, n, k) ==
    [RenderDocument(<<RenderCP("review-step", "review", "step")>>, <<[activity |-> "act1"]>>)
        EXCEPT !.metadata.name = name,
               !.metadata.authorised_agents = [i \in 1..k |-> LongAgent],
               !.context.description = LongDescription(n)]

DescribeFiles ==
    {[name |-> "skill.yml", yaml |-> [parse |-> "ok", data |-> DescribeDocument(name, n, k)],
      skill_md |-> None, registry_dirs |-> {"shared"}] :
        name \in DescribeNames, n \in 0..MaxHundreds, k \in 1..MaxHundreds}

DescribeStart ==
    /\ res = NoResult
    /\ store = <<>>
    /\ cache = EmptyDict
    /\ loaded = FALSE
    /\ gdoc = EmptyDict
    /\ guard = NoGuard
    /\ runner = NoRunner
    /\ loader = NoLoader
    /\ vfile \in DescribeFiles

\* the description between the quotes of the third line of the frontmatter
DescriptionOf(text) == SubSeq(LinesOf(text)[3], 15, Len(LinesOf(text)[3]) - 1)

\* _frontmatter of the document, with the two texts it is made from
Frontmatter ==
    /\ \E text \in {frontmatter(LoadedDocument)} :
        res' = [op |-> "frontmatter", kind |-> "return",
                raw_desc |-> inline(LoadedDocument.context.description),
                suffix |-> suffix_of(LoadedDocument.metadata, LoadedDocument.context),
                description |-> DescriptionOf(text)]
    /\ UNCHANGED <<store, cache, loaded, gdoc, guard, vfile, runner, loader>>

DescribeNext == Frontmatter \/ RenderMd

SpecDescribe == DescribeStart /\ [][DescribeNext]_vars

-----------------------------------------------------------------------------
(* registry/shared/checkpoint-gate/scripts/checkpoint_gate.py               *)
(* An invocation is the record of the options on its command line, each    *)
(* value the string the shell hands over.  In this specification `store`   *)
(* is the control-point log: the records of control_points.jsonl in the    *)
(* order they were appended.                                               *)

MaxRecords == 2     \* most records in the control-point log

CLASSIFICATIONS == {"auto", "notify", "review", "needs_approval", "vetoed"}

Exit(code, word) == [kind |-> "exit", code |-> code, out |-> word]

Digits == {"0", "1", "2", "3", "4", "5", "6", "7", "8", "9"}

\* int(text) of argparse's type=int succeeds (digits, no sign or blanks here)
IsInt(text) == Len(text) > 0 /\ \A i \in 1..Len(text) : Ch(text, i) \in Digits

\* parser.parse_args(): "refused" when argparse calls parser.error (a required
\* option missing, a classification outside the choices, an --sla-hours that
\* is no int), "help" for -h, else the namespace with the defaults filled in
parse_args(argv) ==
    IF Has(argv, "help") THEN [kind |-> "help"]
    ELSE IF \/ \E k \in {"skill", "session", "control_point", "classification"} : ~Has(argv, k)
            \/ argv.classification \notin CLASSIFICATIONS
            \/ Has(argv, "sla_hours") /\ ~IsInt(argv.sla_hours)
    THEN [kind |-> "refused"]
    ELSE [kind |-> "parsed",
          args |-> Merge(argv, [reviewer |-> "", contact |-> "", sla_hours |-> None,
                                detail |-> "", log_file |-> "control_points.jsonl"])]

\* the record main builds, at time now
gate_record(args, now) ==
    [timestamp |-> now, skill |-> args.skill, session |-> args.session,
     control_point |-> args.control_point, classification |-> args.classification,
     reviewer |-> args.reviewer, contact |-> args.contact, sla_hours |-> args.sla_hours,
     detail |-> args.detail, status |-> args.classification]

\* what main prints and exits with once the record is written
verdict(args) ==
    CASE args.classification = "auto" -> Exit(0, "PASSED")
      [] args.classification = "notify" -> Exit(0, "NOTIFIED")
      [] args.classification = "review" -> Exit(0, "PENDING")
      [] args.classification = "needs_approval" -> Exit(0, "PENDING")
      [] OTHER -> Exit(2, "VETOED")

\* main() from the log `log`, the file writable or not: the log afterwards
\* and the exit
gate_main(argv, log, writable) ==
    IF parse_args(argv).kind = "help" THEN [log |-> log, exit |-> Exit(0, "usage")]
    ELSE IF parse_args(argv).kind = "refused" THEN [log |-> log, exit |-> Exit(2, "usage")]
    ELSE IF parse_args(argv).args.classification = "vetoed"
            /\ parse_args(argv).args.contact = ""
    THEN [log |-> log, exit |-> Exit(1, "ERROR")]
    ELSE IF ~writable THEN [log |-> log, exit |-> Exit(1, "ERROR")]
    ELSE [log |-> Append(log, gate_record(parse_args(argv).args, Len(log) + 1)),
          exit |-> verdict(parse_args(argv).args)]

\* the options _checkpoint_gate_cmd writes for a control point
rendered_argv(skill_id, cp) ==
    Merge([skill |-> skill_id, session |-> "s1", control_point |-> cp.id,
           classification |-> Get(cp, "classification", "")],
          Merge(IF Truthy(Get(cp, "who_reviews", None))
                THEN [reviewer |-> cp.who_reviews] ELSE EmptyDict,
                Merge(IF Get(cp, "sla_hours", 0) # 0
                      THEN [sla_hours |-> ToString(cp.sla_hours)] ELSE EmptyDict,
                      IF Truthy(Get(cp, "escalation_contact", None))
                      THEN [contact |-> cp.escalation_contact] ELSE EmptyDict)))

GateCPs ==
    {RenderCP("auto-step", "auto", "step"),
     RenderCP("notify-cond", "notify", "conditional"),
     Merge([sla_hours |-> 4], RenderCP("review-step", "review", "step")),
     RenderCP("approval-cond", "needs_approval", "conditional"),
     RenderCP("veto-cond", "vetoed", "conditional")}

\* command lines typed by hand
GateArgvs ==
    {[skill |-> "a/x", session |-> "s1", control_point |-> "cp1", classification |-> "review"],
     [skill |-> "a/x", session |-> "s1", control_point |-> "cp1", classification |-> "review",
      reviewer |-> "reviewer", sla_hours |-> "soon"],
     [skill |-> "a/x", session |-> "s1", control_point |-> "cp2", classification |-> "vetoed"],
     [skill |-> "a/x", session |-> "s1", control_point |-> "cp2", classification |-> "vetoed",
      contact |-> ""],
     [skill |-> "a/x", session |-> "s1", control_point |-> "cp2", classification |-> "veto",
      contact |-> "ops"],
     [skill |-> "a/x", session |-> "s1", control_point |-> "cp2", classification |-> "Vetoed",
      contact |-> "ops"],
     [skill |-> "a/x", control_point |-> "cp2", classification |-> "vetoed", contact |-> "ops"],
     [session |-> "s1", control_point |-> "cp1"],
     [help |-> ""]}

GateStart ==
    /\ res = NoResult
    /\ store = <<>>
    /\ cache = EmptyDict
    /\ loaded = FALSE
    /\ gdoc = EmptyDict
    /\ guard = NoGuard
    /\ vfile = None
    /\ runner = NoRunner
    /\ loader = NoLoader

Gate(argv) ==
    /\ \E writable \in BOOLEAN :
        \E ran \in {gate_main(argv, store, writable)} :
            /\ Len(ran.log) <= MaxRecords
            /\ store' = ran.log
            /\ res' = [op |-> "checkpoint_gate", argv |-> argv, kind |-> "exit",
                       code |-> ran.exit.code, out |-> ran.exit.out]
    /\ UNCHANGED <<cache, loaded, gdoc, guard, vfile, runner, loader>>

\* the agent runs the command the rendered text gives for a control point
RunRenderedGate == \E cp \in GateCPs : Gate(rendered_argv("a/x", cp))

\* someone runs the script by hand
RunGate == \E argv \in GateArgvs : Gate(argv)

GateNext == RunRenderedGate \/ RunGate

SpecGate == GateStart /\ [][GateNext]_vars

-----------------------------------------------------------------------------
(* Claims about the workflow runner, checked under SpecRunner *)

\* the activity of the step of the skill.yml with this id, if one has it
ActivityOfStep(step) ==
    {vfile.yaml.data.workflow.steps[i].activity :
        i \in {j \in 1..Len(vfile.yaml.data.workflow.steps) :
                  /\ Has(vfile.yaml.data.workflow.steps[j], "id")
                  /\ vfile.yaml.data.workflow.steps[j].id = step}}

\* C15: an attempt to register or to invoke an activity that is not in the
\* approved activities ends in an error of a kind of its own,
\* ActivityNotPermitted, and the validate-activity script never allows a step
\* whose activity is not approved.
C15_UnapprovedRefusedAsNotPermitted ==
    /\ res.op = "register" /\ res.activity \notin runner._approved
        => res.kind = "ActivityNotPermitted"
    /\ (/\ res.op = "execute_step"
        /\ Has(runner._steps[res.at], "activity")
        /\ runner._steps[res.at].activity \notin runner._approved)
        => res.kind = "ActivityNotPermitted"
    /\ res.op = "validate_activity" /\ ActivityOfStep(res.step) \ runner._approved # {}
        => res.kind = "exit" /\ ~res.out.allowed

\* what does hold: no function is ever called for an activity that is not
\* approved, and an approved activity is accepted by register
C15_UnapprovedNeverCalled ==
    /\ \A i \in 1..Len(runner.called) : runner.called[i] \in runner._approved
    /\ runner._activity_registry \subseteq runner._approved
    /\ res.op = "register" /\ res.activity \in runner._approved
        => res.kind = "ok" /\ res.activity \in runner._activity_registry

\* what the refusals are: ValueError from register, KeyError from execute
C15_RefusedAsBuiltinErrors ==
    /\ res.op = "register" /\ res.activity \notin runner._approved
        => res.kind = "ValueError"
    /\ (/\ res.op = "execute_step"
        /\ Has(runner._steps[res.at], "activity")
        /\ runner._steps[res.at].activity \notin runner._approved)
        => res.kind = "KeyError"

\* the steps the present run of execute() has run, as the audit log has them
LoggedInRun == SubSeq(runner._audit_log, runner.logged + 1, Len(runner._audit_log))

Vetoed == runner.status = "VetoTriggeredError"

\* the run stopped at step runner.at: the functions called and the entries
\* logged in the run are those of the steps up to it, and in a first run the
\* results are theirs too
StoppedAt ==
    /\ Len(runner.called) = runner.at
    /\ Len(LoggedInRun) = runner.at
    /\ \A i \in 1..runner.at :
        /\ runner.called[i] = runner._steps[i].activity
        /\ LoggedInRun[i].step_id = runner._steps[i].id
    /\ runner.run = 1 => DOMAIN runner._results = {runner._steps[i].id : i \in 1..runner.at}

\* nothing of the run changes while the runner is not given a new run
RunFrozen ==
    runner'.run = runner.run =>
        /\ runner'.status = runner.status
        /\ runner'.at = runner.at
        /\ runner'.called = runner.called
        /\ runner'._results = runner._results
        /\ runner'._audit_log = runner._audit_log

\* the evaluator of the veto of the step just run returned true
VetoFired ==
    /\ res.op = "execute_step"
    /\ res.kind # "KeyError"
    /\ Truthy(Get(runner._steps[res.at], "veto_trigger", None))
    /\ runner._steps[res.at].veto_trigger \in runner._veto_evaluators
    /\ res.fires

Blocked == runner.status = "CheckpointBlockedError"

\* the handler of the control point of the step just run let the run go on
Cleared == /\ runner._steps[res.at].checkpoint \in runner._checkpoint_handlers
           /\ res.passes

\* the step just run came to its control point
AtCheckpoint ==
    /\ res.op = "execute_step"
    /\ res.kind \notin {"KeyError", "VetoTriggeredError"}
    /\ Truthy(Get(runner._steps[res.at], "checkpoint", None))

\* C17: when the control point of a step is not cleared the run ends blocked,
\* with CheckpointBlockedError and not the veto error, and while it is blocked
\* no step runs.
C17_UnclearedCheckpointBlocks ==
    /\ AtCheckpoint /\ ~Cleared => Blocked /\ res.kind = "CheckpointBlockedError"
    /\ Blocked => StoppedAt /\ res.kind # "VetoTriggeredError"

\* what does hold: a control point whose registered handler refuses blocks
\* the run, after the function of its own step has been called
C17_RefusedCheckpointBlocks ==
    /\ [](AtCheckpoint /\ ~res.passes
            /\ runner._steps[res.at].checkpoint \in runner._checkpoint_handlers
          => /\ Blocked
             /\ res.kind = "CheckpointBlockedError"
             /\ res.out.checkpoint_id = runner._steps[res.at].checkpoint
             /\ runner.called[res.at] = runner._steps[res.at].activity)
    /\ [](Blocked => StoppedAt)
    /\ [][Blocked => RunFrozen]_vars

\* and the only way past a control point that was not cleared is to have no
\* handler registered for it
C17_PassedOnlyWithoutHandler ==
    AtCheckpoint /\ ~Cleared /\ ~Blocked
        => runner._steps[res.at].checkpoint \notin runner._checkpoint_handlers

\* the step just run: it has an id and its activity has a function
StepRun ==
    /\ res.op = "execute_step"
    /\ Has(runner._steps[res.at], "id")
    /\ Has(runner._steps[res.at], "activity")
    /\ runner._steps[res.at].activity \in runner._activity_registry

\* the step has no veto, or a veto of the document without evaluator
VetoIdle(step) ==
    Truthy(Get(step, "veto_trigger", None)) =>
        /\ step.veto_trigger \in DOMAIN runner._veto_index
        /\ step.veto_trigger \notin runner._veto_evaluators

\* the step has no checkpoint, or one of the document without handler
CheckpointIdle(step) ==
    Truthy(Get(step, "checkpoint", None)) =>
        /\ step.checkpoint \in DOMAIN runner._checkpoint_index
        /\ step.checkpoint \notin runner._checkpoint_handlers

\* the run went on from step i: to the next step, or to its return
WentOn(i) ==
    /\ res.kind \in {"ok", "return"}
    /\ IF i = Len(runner._steps) THEN runner.status = "returned"
       ELSE runner.status = "running" /\ runner.at = i + 1

\* C27: a veto stops a run only when an evaluator is registered for it and a
\* checkpoint only when a handler is: a step whose veto has no evaluator and
\* whose checkpoint has no handler is passed without evaluation, whatever an
\* evaluator or handler would have said, and the run goes on to the next
\* step or returns.
C27_UnregisteredControlPasses ==
    StepRun =>
        /\ res.kind = "VetoTriggeredError" =>
              runner._steps[res.at].veto_trigger \in runner._veto_evaluators /\ res.fires
        /\ res.kind = "CheckpointBlockedError" =>
              runner._steps[res.at].checkpoint \in runner._checkpoint_handlers /\ ~res.passes
        /\ VetoIdle(runner._steps[res.at]) => res.kind # "VetoTriggeredError"
        /\ CheckpointIdle(runner._steps[res.at]) => res.kind # "CheckpointBlockedError"
        /\ VetoIdle(runner._steps[res.at]) /\ CheckpointIdle(runner._steps[res.at]) =>
            /\ WentOn(res.at)
            /\ \A k \in 1..Len(runner.trace) :
                  runner.trace[k].at = res.at => runner.trace[k].ev \in {"activity", "recorded"}

\* a step with a veto and a checkpoint of the document, neither registered,
\* has been passed although the veto would fire and the checkpoint refuse
C27_Witness ==
    /\ StepRun
    /\ Truthy(Get(runner._steps[res.at], "veto_trigger", None))
    /\ Truthy(Get(runner._steps[res.at], "checkpoint", None))
    /\ VetoIdle(runner._steps[res.at])
    /\ CheckpointIdle(runner._steps[res.at])
    /\ res.fires /\ ~res.passes
    /\ res.kind = "ok"
    /\ runner.at = res.at + 1

-----------------------------------------------------------------------------
(* Claims about a reload beside readers, checked under SpecReload *)

IsRead == res.op \in {"get_skill", "found", "contains", "len", "list_skills"}

\* C18: a read beside a reload sees the whole cache of before the reload or
\* the whole cache of after it, and a document that is in both is never
\* reported as not found.
C18_ReadersSeeCompleteCache ==
    IsRead =>
        /\ res.seen \in {res.before, CompleteCache(store)}
        /\ res.op = "get_skill"
           /\ res.skill_id \in DOMAIN res.before
           /\ res.skill_id \in DOMAIN CompleteCache(store)
            => res.kind \notin {"SkillNotFoundError", "KeyError"}

\* what does hold: only a read made while the reload is between its clear()
\* and the end of its loop sees anything else
C18_CompleteUnlessReloading ==
    IsRead /\ ~res.reloading => res.seen \in {res.before, CompleteCache(store)}
-----------------------------------------------------------------------------
(* core/access_control.py: a guard that is kept while its document changes. *)
(* __init__ copies the status string and keeps a reference to the list of   *)
(* authorised agents: guard.shares tells that the guard and the document    *)
(* still hold the same list object.                                         *)

LiveDocs ==
    {[metadata |-> Merge([id |-> "a/x", status |-> s], a)] :
        s \in {"approved", "draft"},
        a \in OptField("authorised_agents", {<<>>, <<"a1">>})}

LiveAgents == {"a1", "a2"}

SharesList(d) == Merge([shares |-> Has(d.metadata, "authorised_agents")], GuardInit(d))

LiveStart ==
    /\ res = NoResult
    /\ store = <<>>
    /\ cache = EmptyDict
    /\ loaded = FALSE
    /\ vfile = EmptyDict
    /\ runner = NoRunner
    /\ loader = NoLoader
    /\ gdoc \in LiveDocs
    /\ guard = SharesList(gdoc)

\* guard = AuthorisedAgentsGuard(doc)
Reconstruct ==
    /\ guard' = SharesList(gdoc)
    /\ res' = [op |-> "construct", kind |-> "ok"]
    /\ UNCHANGED <<store, cache, loaded, gdoc, vfile, runner, loader>>

\* doc["metadata"]["status"] = status
SetStatus ==
    /\ \E status \in {"approved", "draft", "deprecated"} :
        /\ status # gdoc.metadata.status
        /\ gdoc' = [gdoc EXCEPT !.metadata.status = status]
    /\ res' = [op |-> "set_status", kind |-> "ok"]
    /\ UNCHANGED <<store, cache, loaded, guard, vfile, runner, loader>>

\* doc["metadata"]["authorised_agents"] = agents: another list object
SetAgents ==
    /\ \E agents \in SeqsUpTo(LiveAgents, MaxAgents) :
        /\ Has(gdoc.metadata, "authorised_agents") => agents # gdoc.metadata.authorised_agents
        /\ gdoc' = [gdoc EXCEPT !.metadata = Put(@, "authorised_agents", agents)]
    /\ guard' = [guard EXCEPT !.shares = FALSE]
    /\ res' = [op |-> "set_agents", kind |-> "ok"]
    /\ UNCHANGED <<store, cache, loaded, vfile, runner, loader>>

\* doc["metadata"]["authorised_agents"].append(agent_id): the same list object
AppendAgent ==
    /\ Has(gdoc.metadata, "authorised_agents")
    /\ Len(gdoc.metadata.authorised_agents) < MaxAgents
    /\ \E agent_id \in LiveAgents :
        /\ gdoc' = [gdoc EXCEPT !.metadata.authorised_agents = Append(@, agent_id)]
        /\ guard' = IF guard.shares
                    THEN [guard EXCEPT !.authorised_agents = Append(@, agent_id)]
                    ELSE guard
    /\ res' = [op |-> "append_agent", kind |-> "ok"]
    /\ UNCHANGED <<store, cache, loaded, vfile, runner, loader>>

\* guard.check(agent_id) on the guard that was kept
CheckKept ==
    /\ \E agent_id \in LiveAgents :
        \E out \in {check(guard, agent_id)} :
            res' = [op |-> "check", agent_id |-> agent_id, out |-> out, kind |-> out.kind]
    /\ UNCHANGED <<store, cache, loaded, gdoc, guard, vfile, runner, loader>>

\* check_access(doc, agent_id), as get_skill calls it on every request
CheckAccess ==
    /\ \E agent_id \in LiveAgents :
        \E out \in {check_access(gdoc, agent_id)} :
            res' = [op |-> "check_access", agent_id |-> agent_id, out |-> out,
                    kind |-> out.kind]
    /\ UNCHANGED <<store, cache, loaded, gdoc, guard, vfile, runner, loader>>

LiveNext ==
    Reconstruct \/ SetStatus \/ SetAgents \/ AppendAgent \/ CheckKept \/ CheckAccess

SpecLive == LiveStart /\ [][LiveNext]_vars

-----------------------------------------------------------------------------
(* Claims about access decisions on a changing document, checked under      *)
(* SpecLive                                                                 *)

\* the decision the present values of the document call for
PermittedNow(agent_id) == DocStatus = "approved" /\ Listed(agent_id)

\* C19: an access check decides by the status and the authorised agents the
\* document has at the time of the check, never by those it had at an
\* earlier check or when the guard was constructed.
C19_DecidedOnCurrentDocument ==
    res.op \in {"check", "check_access"} =>
        /\ (res.kind = "ok") = PermittedNow(res.agent_id)
        /\ res.kind = "SkillNotApprovedError" => res.out.status = DocStatus

\* what does hold: check_access decides on the present document, and a kept
\* guard decides on the status of its construction and on the list it
\* was given
C19_FreshGuardPerRequest ==
    /\ res.op = "check_access" => (res.kind = "ok") = PermittedNow(res.agent_id)
    /\ guard.shares => guard.authorised_agents = DocAgents
    /\ res.op = "check" /\ guard.status = DocStatus /\ guard.authorised_agents = DocAgents
        => (res.kind = "ok") = PermittedNow(res.agent_id)
-----------------------------------------------------------------------------
(* Claims about the cached documents, checked under Spec *)

Borrowing(op) == op \in {"get_skill", "list_skills", "render", "contains", "len", "export"}

\* C20: once the registry is loaded, no access check, passed or failed, no
\* render and no list_skills changes a cached document or the set of cached
\* ids; only load does.
C20_CachedDocumentsUnchanged ==
    [][loaded /\ Borrowing(res'.op) => cache' = cache /\ loaded']_vars

C20_Witness ==
    /\ loaded
    /\ res.op = "list_skills"
    /\ res.kind = "return"
    /\ Len(res.out.value) = MaxFiles
    /\ \A i \in 1..Len(res.out.value) :
        /\ Has(res.out.value[i], "risk_classification")
        /\ ~Has(cache[res.out.value[i].id].metadata, "risk_classification")
-----------------------------------------------------------------------------
(* Claims about the cache of a registry whose store changes, checked under  *)
(* SpecStore                                                                *)

\* the structurally valid documents of the files, each with its directory;
\* of several with one id, the one whose path sorts last
LastValid(files, id) ==
    CHOOSE i \in 1..Len(files) :
        /\ FileValid(files[i]) /\ files[i].yaml.data.metadata.id = id
        /\ \A j \in (i + 1)..Len(files) :
               ~(FileValid(files[j]) /\ files[j].yaml.data.metadata.id = id)

ValidDocuments(files) ==
    [id \in {files[i].yaml.data.metadata.id : i \in {j \in 1..Len(files) : FileValid(files[j])}}
        |-> Merge([_skill_dir |-> LastValid(files, id)], files[LastValid(files, id)].yaml.data)]

\* a call that loads only if nothing is loaded yet
LoadsOnce(r) ==
    \/ r.op \in {"get_skill", "list_skills", "len", "contains"}
    \/ r.op = "load" /\ ~r.force_reload

ForcedReload(r) == r.op = "load" /\ r.force_reload

\* C21: after a completed load a load() without force_reload, also the one
\* inside get_skill, in, len and list_skills, leaves the cache as it is
\* whatever has become of the store, and load(force_reload=True) returns with
\* the cache holding the valid documents of the store as it is now.
C21_LoadCaching ==
    [][/\ loaded /\ LoadsOnce(res') => cache' = cache /\ loaded'
       /\ ForcedReload(res') =>
            /\ res'.kind = "ok"
            /\ loaded'
            /\ cache' = ValidDocuments(store)]_vars

\* what does hold: the cache is kept once loaded, and a forced reload that
\* returns has built the cache of the present store
C21_LoadCachingWhenReturned ==
    [][/\ loaded /\ LoadsOnce(res') => cache' = cache /\ loaded'
       /\ ForcedReload(res') /\ res'.kind = "ok" =>
            /\ loaded'
            /\ cache' = ValidDocuments(store)]_vars

\* and a forced reload that raises has raised the IndexError of the
\* regulation without a keyword
C21_RaisedOnlyIndexError ==
    ForcedReload(res) /\ res.kind # "ok" =>
        /\ res.kind = "IndexError"
        /\ \E i \in 1..Len(store) : store[i] = NoKeywordStoreFile

\* a registry that keeps serving a document its store no longer holds
C21_StaleCacheReached ==
    /\ loaded
    /\ res.op = "get_skill" /\ res.kind = "return"
    /\ store = <<>>

\* a forced reload that dropped a document that was removed or made invalid
C21_ReloadDropsReached ==
    /\ ForcedReload(res) /\ res.kind = "ok"
    /\ cache = EmptyDict
    /\ store # <<>>
-----------------------------------------------------------------------------
(* Claims about the order of a run, checked under SpecRunner *)

\* the place of what a run does within one step
Stage(ev) == CASE ev = "activity" -> 1 [] ev = "recorded" -> 2
               [] ev = "veto" -> 3 [] ev = "checkpoint" -> 4

-----------------------------------------------------------------------------
(* Claims about the rendered text, checked under SpecRender *)

RenderedMd == res.op = "render_md" /\ res.kind = "return"

IsSectionHeading(line) == StartsWith(line, "## ")

VetoedHeading == "## Vetoed Conditions " \o EMDASH \o " Halt Immediately"
OversightHeading == "## Oversight Checkpoints"
ConditionalHeading == "## Condition-Triggered Controls"

\* the line is in the section under the heading
InSection(lines, heading, line) ==
    \E h \in 1..Len(lines) : \E k \in (h + 1)..Len(lines) :
        /\ lines[h] = heading
        /\ lines[k] = line
        /\ \A m \in (h + 1)..k : ~IsSectionHeading(lines[m])

\* the line that opens the block of a control point in a section
BlockOf(cp) == "### " \o cp.id \o " " \o EMDASH \o " " \o cp_display_name(cp)

DocCPs == vfile.yaml.data.control_points

\* C23: of the rendered text, every vetoed control point is in the halt
\* section and in neither of the other two, every other control point
\* activated at a step is in the oversight section, every other control point
\* activated on a condition is in the condition-triggered section, and so no
\* control point is in none of the three.
C23_SectionsPartitionControlPoints ==
    RenderedMd =>
        \A i \in 1..Len(DocCPs) :
            /\ IsVetoed(DocCPs[i]) =>
                /\ InSection(res.lines, VetoedHeading, BlockOf(DocCPs[i]))
                /\ ~InSection(res.lines, OversightHeading, BlockOf(DocCPs[i]))
                /\ ~InSection(res.lines, ConditionalHeading, BlockOf(DocCPs[i]))
            /\ ~IsVetoed(DocCPs[i]) /\ DocCPs[i].activation = "step" =>
                InSection(res.lines, OversightHeading, BlockOf(DocCPs[i]))
            /\ ~IsVetoed(DocCPs[i]) /\ DocCPs[i].activation = "conditional" =>
                InSection(res.lines, ConditionalHeading, BlockOf(DocCPs[i]))

\* what does hold: the three sections partition the control points that are
\* not of classification auto, and a control point of classification auto is
\* in none of them
C23_PartitionLeavesOutAuto ==
    RenderedMd =>
        \A i \in 1..Len(DocCPs) :
            /\ InSection(res.lines, VetoedHeading, BlockOf(DocCPs[i])) <=> IsVetoed(DocCPs[i])
            /\ InSection(res.lines, OversightHeading, BlockOf(DocCPs[i])) <=>
                /\ DocCPs[i].classification \notin {"vetoed", "auto"}
                /\ DocCPs[i].activation = "step"
            /\ InSection(res.lines, ConditionalHeading, BlockOf(DocCPs[i])) <=>
                /\ DocCPs[i].classification \notin {"vetoed", "auto"}
                /\ DocCPs[i].activation = "conditional"

\* the lines of a rendered text that open a section or an item of one
IsOutline(line) ==
    \/ StartsWith(line, "## ")
    \/ StartsWith(line, "### ")
    \/ StartsWith(line, "| '")
    \/ StartsWith(line, "- ")

Outline(lines) == SelectSeq(lines, IsOutline)

\* a heading and its items, nothing when there are no items
SectionOutline(heading, items) == IF items = <<>> THEN <<>> ELSE <<heading>> \o items

BlocksOf(cps) == [i \in 1..Len(cps) |-> BlockOf(cps[i])]

IsAtStep(cp) == cp.classification \in NeedsReviewer /\ cp.activation = "step"
IsOnCondition(cp) == cp.classification \in NeedsReviewer /\ cp.activation = "conditional"

\* the outline the document calls for: the sections in their fixed order,
\* each with its items in the order of the document
ExpectedOutline(data) ==
    <<"## Initialisation", "## Approved Activities">>
    \o [i \in 1..Len(data.approved_activities) |->
            "| '" \o data.approved_activities[i].id \o "' | "
            \o data.approved_activities[i].description \o " |"]
    \o SectionOutline("## What You Must Never Do",
                      [i \in 1..Len(data.constraints.unacceptable_actions) |->
                          "- " \o data.constraints.unacceptable_actions[i]])
    \o SectionOutline(VetoedHeading, BlocksOf(SelectSeq(data.control_points, IsVetoed)))
    \o SectionOutline(OversightHeading, BlocksOf(SelectSeq(data.control_points, IsAtStep)))
    \o SectionOutline(ConditionalHeading,
                      BlocksOf(SelectSeq(data.control_points, IsOnCondition)))
    \o SectionOutline("## Workflow",
                      [i \in 1..Len(data.workflow.steps) |->
                          "### Step " \o ToString(i) \o " " \o EMDASH \o " "
                          \o (IF Has(data.workflow.steps[i], "id")
                              THEN data.workflow.steps[i].id
                              ELSE data.workflow.steps[i].activity)])

\* C24: the rendered text opens with the frontmatter and the header, and its
\* sections come in one fixed order (initialisation, approved activities,
\* never-do list, vetoed, step checkpoints, conditional controls, workflow),
\* a section without items left out, the items of each section in the order
\* of the document.
C24_FixedOrderDocumentOrder ==
    RenderedMd =>
        /\ res.lines[1] = "---"
        /\ \E h \in 1..Len(res.lines) :
            /\ StartsWith(res.lines[h], "# ")
            /\ \A k \in 1..h : ~IsOutline(res.lines[k])
        /\ Outline(res.lines) = ExpectedOutline(vfile.yaml.data)

\* a rendered document with every section, two items or more in each, and
\* control points that are not in the order of the sections
C24_Witness ==
    /\ RenderedMd
    /\ Len(SelectSeq(res.lines, IsSectionHeading)) = 7
    /\ Len(DocCPs) = 6
    /\ vfile.yaml.data.constraints.unacceptable_actions = <<"delete records", "pay out">>
    /\ vfile.yaml.data.approved_activities[1].id = "act2"

RanCommand == res.op = "validate_command"

\* the steps of the document whose rendered commands were run
DocSteps == vfile.yaml.data.workflow.steps

\* the step headings of the rendered text come before its validation
\* commands: the command of step i is the i-th after the one that shows the
\* form of the command in the approved activities
CommandOfStep == res.index - 1

\* C28: for every step of the document, the step id in the validation
\* command rendered for the step (the id, else the activity) is reported
\* allowed, with exit 0, by validate_activity run on the same document, also
\* when the step has no id.
C28_RenderedStepAllowed ==
    RanCommand /\ CommandOfStep \in 1..Len(DocSteps) =>
        /\ res.step = IF Has(DocSteps[CommandOfStep], "id") THEN DocSteps[CommandOfStep].id
                      ELSE DocSteps[CommandOfStep].activity
        /\ res.kind = "exit"
        /\ res.out.code = 0
        /\ res.out.allowed

\* what does hold: the rendered command carries the id or else the activity
\* of its step; it is allowed when every step of the document has an id, and
\* when one step has none the script raises KeyError for every step
C28_AllowedWhenEveryStepHasId ==
    RanCommand /\ CommandOfStep \in 1..Len(DocSteps) =>
        /\ res.step = IF Has(DocSteps[CommandOfStep], "id") THEN DocSteps[CommandOfStep].id
                      ELSE DocSteps[CommandOfStep].activity
        /\ (\A i \in 1..Len(DocSteps) : Has(DocSteps[i], "id"))
              => res.kind = "exit" /\ res.out.code = 0 /\ res.out.allowed
        /\ (\E i \in 1..Len(DocSteps) : ~Has(DocSteps[i], "id"))
              => res.kind = "KeyError"

\* the command of a step with an id was refused beside a step without one
C28_RefusedReached ==
    /\ RanCommand
    /\ CommandOfStep \in 1..Len(DocSteps)
    /\ Has(DocSteps[CommandOfStep], "id")
    /\ res.kind = "KeyError"

\* the command of a step with an id was allowed
C28_AllowedReached ==
    /\ RanCommand
    /\ CommandOfStep \in 1..Len(DocSteps)
    /\ res.kind = "exit" /\ res.out.code = 0

DeclaredIds == {DocCPs[i].id : i \in 1..Len(DocCPs)}

\* the step names a control point the document does not declare
Undeclared(step) ==
    Truthy(Get(step, "control_point", None)) /\ step.control_point \notin DeclaredIds

HasUndeclared == \E i \in 1..Len(DocSteps) : Undeclared(DocSteps[i])

\* every control point activated at a step is named by a step
AllReferenced ==
    \A i \in 1..Len(DocCPs) :
        DocCPs[i].activation = "step" =>
            \E j \in 1..Len(DocSteps) : Get(DocSteps[j], "control_point", None) = DocCPs[i].id

\* what validate_skill reported: its warnings, or the errors it raised
Reported == IF res.kind = "return" THEN res.out.value ELSE res.out.errors

IsGateLine(line) == StartsWith(line, "python " \o SHARED \o "/checkpoint-gate/")

\* the place of the heading of step i in the lines, and the place after the
\* last line of the step
StepHeading(lines, i) ==
    CHOOSE h \in 1..Len(lines) : StartsWith(lines[h], "### Step " \o ToString(i) \o " ")

StepEnd(lines, i) ==
    IF i = Len(DocSteps) THEN Len(lines) + 1 ELSE StepHeading(lines, i + 1)

\* the lines of step i hold a command of the checkpoint gate
StepGated(lines, i) ==
    \E k \in StepHeading(lines, i)..(StepEnd(lines, i) - 1) :
        IsGateLine(lines[k]) \/ StartsWith(lines[k], "Control point **")

\* C30: a step that names a control point the document does not declare is
\* not reported by validate_skill, neither as warning nor as error, strict or
\* not, and the rendered text has no command of the checkpoint gate for that
\* step, while a step that names a declared control point has one.
C30_UndeclaredControlPointSilent ==
    /\ Validated /\ HasUndeclared =>
          /\ res.kind \in {"return", "ValidationError"}
          /\ \A k \in 1..Len(Reported) :
                /\ Reported[k].kind = "control_point_unreferenced"
                /\ Reported[k].cp \in DeclaredIds
          /\ AllReferenced => res.kind = "return" /\ res.out.value = <<>>
    /\ RenderedMd =>
          \A i \in 1..Len(DocSteps) :
              StepGated(res.lines, i) <=>
                  /\ Truthy(Get(DocSteps[i], "control_point", None))
                  /\ ~Undeclared(DocSteps[i])

\* a document whose only flaw is the undeclared control point of a step has
\* passed the strict validation without a warning
C30_Witness ==
    /\ Validated
    /\ res.strict
    /\ HasUndeclared
    /\ AllReferenced
    /\ res.kind = "return"
    /\ res.out.value = <<>>
    /\ \E i \in 1..Len(DocSteps) : ~Undeclared(DocSteps[i]) /\ Has(DocSteps[i], "control_point")

\* the text of such a document has been rendered, the step of the declared
\* control point with its command and the other without
C30_RenderedWitness ==
    /\ RenderedMd
    /\ Len(DocSteps) = 2
    /\ Undeclared(DocSteps[2])
    /\ ~StepGated(res.lines, 2)
    /\ StepGated(res.lines, 1)

(***************************************************************************)
(* Claims about files that declare the same id, checked under SpecSameId   *)
(***************************************************************************)

\* the store holds two valid files or more that declare the id
SeveralDeclare(id) ==
    \E i \in 1..Len(store) : \E j \in (i + 1)..Len(store) :
        /\ FileValid(store[i]) /\ store[i].yaml.data.metadata.id = id
        /\ FileValid(store[j]) /\ store[j].yaml.data.metadata.id = id

\* C29: the cache holds one document for each id the valid files of the
\* store declare: after load the document of an id is that of the file last
\* in sorted path order among the valid files declaring it, len counts each
\* id once, and get_skill returns that last document.
C29_OnePerIdLastWins ==
    /\ res.op = "load" =>
          \A id \in ValidIds :
              SeveralDeclare(id) =>
                  /\ res.kind = "ok"
                  /\ id \in DOMAIN cache
                  /\ cache[id] = ValidDocuments(store)[id]
    /\ res.op = "len" /\ (\E id \in ValidIds : SeveralDeclare(id)) =>
          /\ res.kind = "return"
          /\ res.out.value = Cardinality(ValidIds)
    /\ res.op = "get_skill" /\ SeveralDeclare(res.skill_id) =>
          /\ res.kind \in CheckKinds
          /\ res.kind = "return" =>
                res.out.value = ValidDocuments(store)[res.skill_id]

\* what does hold: the same of every call that does not end in the
\* IndexError of a regulation without a keyword
C29_LastWinsWhenLoaded ==
    /\ res.op \in {"load", "len", "get_skill"} /\ res.kind \notin {"ok", "return"} =>
          \/ res.kind = "IndexError" /\ \E i \in 1..Len(store) : store[i] = NoKeywordStoreFile
          \/ res.op = "get_skill" /\ res.kind \in CheckKinds
    /\ res.op = "load" /\ res.kind = "ok" => cache = ValidDocuments(store)
    /\ loaded => cache = ValidDocuments(store)
    /\ res.op = "len" /\ res.kind = "return" => res.out.value = Cardinality(ValidIds)
    /\ res.op = "get_skill" /\ res.kind = "return" =>
          /\ res.skill_id \in ValidIds
          /\ res.out.value = ValidDocuments(store)[res.skill_id]

\* two different valid files declare one id and get_skill has returned the
\* document of the second
C29_LastReturned ==
    /\ res.op = "get_skill" /\ res.kind = "return"
    /\ SeveralDeclare(res.skill_id)
    /\ Len(store) = 2
    /\ store[1].yaml.data # store[2].yaml.data
    /\ res.out.value = Merge([_skill_dir |-> 2], store[2].yaml.data)
    /\ Cardinality(DOMAIN cache) = 1

\* get_skill has ended in IndexError for an id that two valid files declare
C29_RaisedReached ==
    /\ res.op = "get_skill" /\ res.kind = "IndexError"
    /\ SeveralDeclare(res.skill_id)

(***************************************************************************)
(* Claims about the frontmatter description, checked under SpecDescribe    *)
(***************************************************************************)

Described == res.op = "frontmatter"

\* C25: for every description and every suffix the description of the
\* frontmatter is at most MAX_DESCRIPTION long; when the two do not fit the
\* raw description is cut from its start and ended with "...", and when they
\* fit it is unchanged; the render does not fail.
C25_DescriptionCapped ==
    /\ res.op = "render_md" => res.kind = "return"
    /\ Described =>
        /\ Len(res.description) <= MAX_DESCRIPTION
        /\ Len(res.raw_desc) + Len(res.suffix) <= MAX_DESCRIPTION =>
              res.description = res.raw_desc \o res.suffix
        /\ Len(res.raw_desc) + Len(res.suffix) > MAX_DESCRIPTION =>
              \E n \in 0..Len(res.raw_desc) :
                  res.description = SubSeq(res.raw_desc, 1, n) \o "..." \o res.suffix

\* what does hold: the same of every suffix that leaves room for the marker
C25_CappedWhenSuffixLeavesRoom ==
    /\ res.op = "render_md" => res.kind = "return"
    /\ Described =>
        /\ Len(res.raw_desc) + Len(res.suffix) <= MAX_DESCRIPTION =>
              res.description = res.raw_desc \o res.suffix
        /\ Len(res.raw_desc) + Len(res.suffix) > MAX_DESCRIPTION =>
              \E n \in 0..Len(res.raw_desc) :
                  res.description = SubSeq(res.raw_desc, 1, n) \o "..." \o res.suffix
        /\ Len(res.suffix) + 3 <= MAX_DESCRIPTION =>
              Len(res.description) <= MAX_DESCRIPTION

\* a description is cut to the cap exactly
C25_CutReached ==
    /\ Described
    /\ Len(res.raw_desc) + Len(res.suffix) > MAX_DESCRIPTION
    /\ Len(res.suffix) + 3 <= MAX_DESCRIPTION
    /\ Len(res.description) = MAX_DESCRIPTION

\* a suffix longer than the cap with a description that is not cut to nothing
C25_OverlongReached ==
    /\ Described
    /\ Len(res.suffix) > MAX_DESCRIPTION
    /\ Len(res.description) > Len(res.suffix) + 3


(***************************************************************************)
(* Claims about checkpoint_gate.py, checked under SpecGate                 *)
(***************************************************************************)

Gated == res'.op = "checkpoint_gate" /\ <<store, res>>' # <<store, res>>

\* the step appended exactly one record, that of the invocation
LoggedOne ==
    /\ Len(store') = Len(store) + 1
    /\ SubSeq(store', 1, Len(store)) = store
    /\ store'[Len(store')].control_point = res'.argv.control_point
    /\ store'[Len(store')].classification = res'.argv.classification

\* C26: an invocation exits 2 only for classification vetoed and 0 only for
\* auto, notify, review or needs_approval, a vetoed one never exits 0, and
\* none exits 0 or 2 without having appended exactly one record to the log.
C26_GateVerdicts ==
    [][Gated =>
        /\ res'.code = 2 => Get(res'.argv, "classification", None) = "vetoed"
        /\ res'.code = 0 =>
              Get(res'.argv, "classification", None) \in CLASSIFICATIONS \ {"vetoed"}
        /\ Get(res'.argv, "classification", None) = "vetoed" => res'.code # 0
        /\ res'.code \in {0, 2} => LoggedOne]_vars

\* what does hold: the same of every invocation argparse accepts; one it
\* refuses exits 2, and one asking for help exits 0, the log as it was
C26_VerdictsOfParsedInvocations ==
    [][Gated =>
        /\ parse_args(res'.argv).kind = "parsed" =>
            /\ res'.code \in {0, 1, 2}
            /\ res'.code = 2 => res'.argv.classification = "vetoed"
            /\ res'.code = 0 => res'.argv.classification \in CLASSIFICATIONS \ {"vetoed"}
            /\ res'.argv.classification = "vetoed" => res'.code # 0
            /\ res'.code \in {0, 2} => LoggedOne
            /\ res'.code = 1 => store' = store
            /\ res'.argv.classification = "vetoed" /\ Get(res'.argv, "contact", "") = ""
                  => res'.code = 1
        /\ parse_args(res'.argv).kind = "refused" => res'.code = 2 /\ store' = store
        /\ parse_args(res'.argv).kind = "help" => res'.code = 0 /\ store' = store]_vars

\* a vetoed invocation has exited 2 with its record last in the log
C26_VetoLogged ==
    /\ res.op = "checkpoint_gate"
    /\ res.code = 2
    /\ store # <<>>
    /\ store[Len(store)].classification = "vetoed"
    /\ store[Len(store)].control_point = res.argv.control_point

\* an invocation has exited 2 with nothing in the log
C26_RefusedReached ==
    /\ res.op = "checkpoint_gate"
    /\ res.code = 2
    /\ store = <<>>

=============================================================================
